---- MODULE Spec2Model ----
(***************************************************************************)
(* A model of supamigrate: the foreign-key dependency resolver, the        *)
(* dollar-quote-aware statement segmenter, the batched data transfer and   *)
(* the stage sequencing of main.  Each part has its own specification      *)
(* (SpecSort, SpecParse, SpecData, SpecMain); the variables of the other   *)
(* parts stay at their idle values.                                        *)
(***************************************************************************)
EXTENDS Integers, Sequences, FiniteSets, TLC

VARIABLES
  \* sortByDependency (migrate-data)
  tables,        \* the input list of TableInfo
  fkRows,        \* the rows of the foreign-key catalog query
  sorted,        \* the returned list
  sortPc,        \* "start" | "done"
  \* parseSQLStatements (index)
  sql,            \* the script, a sequence of characters
  lineNo,         \* the index of the next line of sql.split('\n')
  current,        \* the statement buffer
  dollarQuoteTag, \* the open tag, or NoTag for null
  statements,     \* the statements emitted so far
  parsePc,        \* "scan" | "done"
  \* main (index)
  argv,           \* process.argv.slice(2)
  options,        \* the MigrationOptions parseArgs returned
  mainPc,         \* the position in main
  fn,             \* the function main is awaiting, or None
  ip,             \* the next step of that function
  calls,          \* the functions main has invoked, in order
  thrown,         \* the error that reached main's catch, or NoError
  caught,         \* an error was caught inside a function
  targetTouched,  \* a statement that applies a change ran against the target
  exitCode,       \* the process's exit status "0" or "1", or None while it runs
  poolsClosed,    \* closePools has run
  held,           \* the target connections checked out and not released
  \* migrateData, migrateTableData (migrate-data)
  batchSize,      \* config.batchSize
  dTables,        \* the TableInfo list getTablesForDataMigration returned
  srcRows,        \* the rows each table holds in the source while it is paged
  sess,           \* the sessions the target pool has opened: role and alive
  client,         \* the session checked out of the target pool, or 0
  dataPc,         \* the position in migrateData / migrateTableData
  ti,             \* the index of the table of the for loop
  offset,         \* offset of migrateTableData
  page,           \* sourceData.rows.length of the page fetched last
  stats,          \* stats of the running migrateTableData
  results,        \* results of migrateData
  dataErr,        \* the error that left migrateData, or None
  unsuspended,    \* a TRUNCATE or INSERT ran on a session that fires triggers
  dNames,         \* the name of each table of the list
  dRefs,          \* the foreign keys of the target: <<child, parent>> pairs
  tRows,          \* the rows each table holds in the target
  \* applySQL (index)
  aStatements,    \* statements, as parseSQLStatements returned them
  aI,             \* i of the for loop
  success,        \* success
  failed,         \* failed
  aLog,           \* the statements sent to the target, with the outcome of each
  aPc,            \* the position in applySQL
  \* a stage run against a migrated target (migrate-schema, migrate-functions, index)
  rCatalog,       \* what the extraction functions return from the source
  rStage,         \* the stage that runs, or "export"
  rTarget,        \* the objects the target holds
  rIp,            \* the statement the stage is at
  rLog,           \* the statements issued, with what was reported for each
  rDoc,           \* the document exportSchemaToSQL returned
  rPc,            \* the position in the stage
  \* extraction (migrate-schema, migrate-functions, index)
  xTables,        \* the base tables of the source in the configured schemas
  xList,          \* the list an aggregate column holds
  xWire,          \* how the driver delivers an array: "array" or "string"
  xCall,          \* the extraction function that has returned
  xResult,        \* the descriptors it returned
  \* the detection of the pooler region (config)
  bInput,         \* the arguments of buildSupabaseDbUrl
  bI,             \* the candidate of POOLER_REGIONS the loop is at
  bAttempts,      \* the probe pools created, with the outcome of connect and whether end() ran
  bResult,        \* the URL returned
  bPc,            \* the position in buildSupabaseDbUrl
  \* the storage stage (migrate-storage)
  gConfig,        \* config.source and config.target: the storage URLs and keys
  gBuckets,       \* the buckets of the source: the number of files of each
  gBi,            \* the bucket migrateStorage is at
  gFiles,         \* the files listed for the bucket
  gFi,            \* the file migrateStorage is at
  gStats,         \* the statistics of migrateStorage
  gCalls,         \* the calls of the storage API made
  gPc,            \* the position in migrateStorage
  \* exported documents
  xpRows,         \* the rows of the exported table, each the value of its column
  xpFunctions,    \* the definitions of the exported functions
  xpTriggers,     \* the definitions of the exported triggers
  rendered,       \* the statements the exporter rendered, in order
  xpPc,           \* the exporter that ran: "start" before, "idle" in the other models
  \* export, then apply
  tpCatalog,      \* the catalogs of the source
  tpDoc,          \* the statements of the exported document
  tpI,            \* the index of the statement applySQL is at
  tpTarget,       \* the objects the target holds
  tpCount,        \* the success and failed counters of applySQL
  tpPc,           \* "export", "apply", "done"; "idle" in the other models
  \* the INSERT of a page
  iColumns,       \* table.columns, in declared order
  iRows,          \* sourceData.rows of one page: each row maps a column name to its value
  iQuery,         \* the INSERT built for the page: columns, placeholders, values
  iPc,            \* "fetched", "built"; "idle" in the other models
  \* export mode
  eEnv,           \* the TARGET_ variables of the environment
  eTargetConnects, \* the checkouts of the target pool made so far
  eTargetPool,    \* the target pool initPools made, <<>> before
  ePc,            \* the statement main is at; "idle" in the other models
  \* sequences
  sqSource,       \* the source sequence
  sqTarget,       \* the target sequence, NoSequence before it exists
  sqCalls,        \* nextval calls made on the source
  sqInfo,         \* the SequenceInfo getSequences returned
  sqPc            \* position in step 4 of migrateSchema

sortVars == <<tables, fkRows, sorted, sortPc>>

parseVars == <<sql, lineNo, current, dollarQuoteTag, statements, parsePc>>

mainVars == <<argv, options, mainPc, fn, ip, calls, thrown, caught, held,
              targetTouched, exitCode, poolsClosed>>

dataVars == <<batchSize, dTables, srcRows, sess, client, dataPc, ti, offset, page,
              stats, results, dataErr, unsuspended, dNames, dRefs, tRows>>

applyVars == <<aStatements, aI, success, failed, aLog, aPc>>

rerunVars == <<rCatalog, rStage, rTarget, rIp, rLog, rDoc, rPc>>

extractVars == <<xTables, xList, xWire, xCall, xResult>>

regionVars == <<bInput, bI, bAttempts, bResult, bPc>>

storageVars == <<gConfig, gBuckets, gBi, gFiles, gFi, gStats, gCalls, gPc>>

documentVars == <<xpRows, xpFunctions, xpTriggers, rendered, xpPc>>

tripVars == <<tpCatalog, tpDoc, tpI, tpTarget, tpCount, tpPc>>

insertVars == <<iColumns, iRows, iQuery, iPc>>

exportVars == <<eEnv, eTargetConnects, eTargetPool, ePc>>

sequenceVars == <<sqSource, sqTarget, sqCalls, sqInfo, sqPc>>

vars == <<tables, fkRows, sorted, sortPc,
          sql, lineNo, current, dollarQuoteTag, statements, parsePc,
          argv, options, mainPc, fn, ip, calls, thrown, caught,
          targetTouched, exitCode, poolsClosed, held,
          batchSize, dTables, srcRows, sess, client, dataPc, ti, offset, page,
          stats, results, dataErr, unsuspended, dNames, dRefs, tRows,
          aStatements, aI, success, failed, aLog, aPc,
          rCatalog, rStage, rTarget, rIp, rLog, rDoc, rPc,
          xTables, xList, xWire, xCall, xResult,
          bInput, bI, bAttempts, bResult, bPc,
          gConfig, gBuckets, gBi, gFiles, gFi, gStats, gCalls, gPc,
          xpRows, xpFunctions, xpTriggers, rendered, xpPc,
          tpCatalog, tpDoc, tpI, tpTarget, tpCount, tpPc,
          iColumns, iRows, iQuery, iPc,
          eEnv, eTargetConnects, eTargetPool, ePc,
          sqSource, sqTarget, sqCalls, sqInfo, sqPc>>

None == "none"

(***************************************************************************)
(* Small helpers on sequences.                                             *)
(***************************************************************************)
RECURSIVE SetToSortedSeq(_)
SetToSortedSeq(S) ==
  IF S = {} THEN <<>>
  ELSE LET m == CHOOSE x \in S : \A y \in S : x <= y
       IN <<m>> \o SetToSortedSeq(S \ {m})

SeqsUpTo(S, n) == UNION {[1..k -> S] : k \in 0..n}

Range(s) == {s[i] : i \in DOMAIN s}

(***************************************************************************)
(* DependencyResolver: sortByDependency                                    *)
(***************************************************************************)
\* The most foreign-key rows the catalog query returns in the model.
MaxFks == 3

\* The tables of the migrated schema, in the ORDER BY of the listing query.
TableUniverse ==
  << [schema |-> "public", name |-> "a"],
     [schema |-> "public", name |-> "b"],
     [schema |-> "public", name |-> "c"] >>

\* `${table.schema}.${table.name}`
Key(table) == table.schema \o "." \o table.name

UniverseKeys == {Key(TableUniverse[i]) : i \in DOMAIN TableUniverse}

\* A parent may live in a schema that is not migrated (the query filters the
\* child's schema only).
ParentKeys == UniverseKeys \cup {"auth.users"}

FkRowSet == [child : UniverseKeys, parent : ParentKeys]

\* The input lists: the listing query's rows, in order, without the excluded tables.
TableLists ==
  {[i \in 1..Cardinality(I) |-> TableUniverse[SetToSortedSeq(I)[i]]] :
     I \in SUBSET (DOMAIN TableUniverse)}

\* dependencies: Map<string, Set<string>>, a Set iterating in insertion order.
RECURSIVE BuildDependencies(_, _, _)
BuildDependencies(rows, i, deps) ==
  IF i > Len(rows) THEN deps
  ELSE LET row == rows[i]
           d1  == IF row.child \in DOMAIN deps THEN deps
                  ELSE [k \in DOMAIN deps \cup {row.child} |->
                          IF k = row.child THEN <<>> ELSE deps[k]]
           d2  == IF row.parent \in Range(d1[row.child]) THEN d1
                  ELSE [d1 EXCEPT ![row.child] = Append(@, row.parent)]
       IN BuildDependencies(rows, i + 1, d2)

EmptyMap == [k \in {} |-> <<>>]

\* dependencies.get(key) || new Set(), seen with no dependency at all.
DepsOfNone(deps, key) == <<>>

\* dependencies.get(key) || new Set()
DepsOf(deps, key) == IF key \in DOMAIN deps THEN deps[key] ELSE <<>>

\* tables.find(t => `${t.schema}.${t.name}` === dep): an index, or 0 for undefined.
FindTable(tbls, dep) ==
  IF \E i \in DOMAIN tbls : Key(tbls[i]) = dep
  THEN CHOOSE i \in DOMAIN tbls :
         /\ Key(tbls[i]) = dep
         /\ \A j \in DOMAIN tbls : Key(tbls[j]) = dep => i <= j
  ELSE 0

RECURSIVE visit(_, _, _, _)
RECURSIVE visitDeps(_, _, _, _, _)

\* for (const dep of deps) { const depTable = tables.find(...); if (depTable) visit(depTable) }
visitDeps(st, ds, i, tbls, deps) ==
  IF i > Len(ds) THEN st
  ELSE LET f  == FindTable(tbls, ds[i])
           s1 == IF f = 0 THEN st ELSE visit(st, tbls[f], tbls, deps)
       IN visitDeps(s1, ds, i + 1, tbls, deps)

visit(st, table, tbls, deps) ==
  LET key == Key(table) IN
  IF key \in st.visited THEN st
  ELSE IF key \in st.visiting
       THEN \* Circular dependency - just add it
            [st EXCEPT !.sorted = Append(@, table), !.visited = @ \cup {key}]
       ELSE LET s1 == [st EXCEPT !.visiting = @ \cup {key}]
                s2 == visitDeps(s1, DepsOf(deps, key), 1, tbls, deps)
            IN [s2 EXCEPT !.visiting = @ \ {key},
                          !.visited = @ \cup {key},
                          !.sorted = Append(@, table)]

RECURSIVE visitAll(_, _, _, _)
visitAll(st, i, tbls, deps) ==
  IF i > Len(tbls) THEN st
  ELSE visitAll(visit(st, tbls[i], tbls, deps), i + 1, tbls, deps)

sortByDependency(tbls, rows) ==
  LET deps == BuildDependencies(rows, 1, EmptyMap)
      st0  == [sorted |-> <<>>, visited |-> {}, visiting |-> {}]
  IN visitAll(st0, 1, tbls, deps).sorted

\* The tables migrateSchema creates, in order: getTables pushes one descriptor
\* per row of the listing query, in the order of the rows (ORDER BY
\* table_schema, table_name), and the loop of the schema stage follows it.
getTablesOrder(rows) == [i \in DOMAIN rows |-> Key(rows[i])]

SortInit ==
  /\ tables \in TableLists
  /\ fkRows \in SeqsUpTo(FkRowSet, MaxFks)
  /\ sorted = <<>>
  /\ sortPc = "start"

SortIdle ==
  /\ tables = <<>>
  /\ fkRows = <<>>
  /\ sorted = <<>>
  /\ sortPc = "idle"

SortCall ==
  /\ sortPc = "start"
  /\ sorted' = sortByDependency(tables, fkRows)
  /\ sortPc' = "done"
  /\ UNCHANGED <<tables, fkRows>>
  /\ UNCHANGED <<parseVars, mainVars, dataVars, applyVars, rerunVars,
                 extractVars, regionVars, storageVars, documentVars, tripVars,
                 insertVars, exportVars, sequenceVars>>

SortNext == SortCall

(***************************************************************************)
(* StatementSegmenter: parseSQLStatements                                  *)
(***************************************************************************)
\* The most lines of a script in the model.
MaxLines == 3

\* The lines scripts are made of: blank lines, comments (one holding a token),
\* plain statements, lines that open or close a dollar-quoted body, a body on
\* one line, and a line whose tokens touch.
LineSet ==
  { <<>>,
    <<" ">>,
    <<"-", "-", "a">>,
    <<"-", "-", "$", "$">>,
    <<"-", "-", ";">>,
    <<"1">>,
    <<"1", ";">>,
    <<" ", "1", ";", " ">>,
    <<"1", "$", "$">>,
    <<"$", "$", ";">>,
    <<"$", "a", "$">>,
    <<"$", "a", "$", ";">>,
    <<"$", "$", "1", ";", "$", "$", ";">>,
    <<"$", "a", "$", "$">> }

RECURSIVE JoinLines(_, _)
JoinLines(ls, i) ==
  IF i > Len(ls) THEN <<>>
  ELSE IF i = Len(ls) THEN ls[i]
  ELSE ls[i] \o <<"\n">> \o JoinLines(ls, i + 1)

\* sql.split('\n')
SplitLines(text) ==
  LET breaks == {0, Len(text) + 1} \cup {i \in DOMAIN text : text[i] = "\n"}
      Break(k) == CHOOSE b \in breaks : Cardinality({c \in breaks : c < b}) = k - 1
  IN [k \in 1..(Cardinality(breaks) - 1) |-> SubSeq(text, Break(k) + 1, Break(k + 1) - 1)]

IsSpace(c) == c \in {" ", "\n"}

\* String.prototype.trim
RECURSIVE TrimLeft(_)
TrimLeft(s) == IF s # <<>> /\ IsSpace(s[1]) THEN TrimLeft(Tail(s)) ELSE s

RECURSIVE TrimRight(_)
TrimRight(s) ==
  IF s # <<>> /\ IsSpace(s[Len(s)]) THEN TrimRight(SubSeq(s, 1, Len(s) - 1)) ELSE s

Trim(s) == TrimRight(TrimLeft(s))

StartsWithComment(s) == Len(s) >= 2 /\ s[1] = "-" /\ s[2] = "-"

EndsWithSemicolon(s) == s # <<>> /\ s[Len(s)] = ";"

\* dollarQuoteTag = null
NoTag == <<>>

\* [a-zA-Z_]
IsTagChar(c) == c \in {"a", "b", "_"}

\* The end of a match of /\$([a-zA-Z_]*)\$/ that starts at i, or 0.
RECURSIVE MatchEnd(_, _)
MatchEnd(line, k) ==
  IF k > Len(line) THEN 0
  ELSE IF line[k] = "$" THEN k
  ELSE IF IsTagChar(line[k]) THEN MatchEnd(line, k + 1)
  ELSE 0

\* A token closes the open tag whatever it is.
UpdateTagAnyCloses(tag, tok) == IF tag = NoTag THEN tok ELSE NoTag

\* The body of the while loop over the matches of one line.
UpdateTag(tag, tok) ==
  IF tag = NoTag THEN tok
  ELSE IF tag = tok THEN NoTag
  ELSE tag

\* while ((match = dollarQuoteRegex.exec(line)) !== null) { ... }
RECURSIVE ScanLine(_, _, _)
ScanLine(line, i, tag) ==
  IF i > Len(line) THEN tag
  ELSE LET e == IF line[i] = "$" THEN MatchEnd(line, i + 1) ELSE 0
       IN IF e = 0 THEN ScanLine(line, i + 1, tag)
          ELSE ScanLine(line, e + 1, UpdateTag(tag, SubSeq(line, i, e)))

\* A line that ends with ';' completes the statement, inside a body too.
StatementCompleteInBody(tag, trimmed) == EndsWithSemicolon(trimmed)

\* if (dollarQuoteTag === null && trimmed.endsWith(';'))
StatementComplete(tag, trimmed) == tag = NoTag /\ EndsWithSemicolon(trimmed)

\* The statement pushed as it is, with its ';'.
KeepSeparator(stmt) == stmt

\* stmt.slice(0, -1)
StripSeparator(stmt) == SubSeq(stmt, 1, Len(stmt) - 1)

Lines == SplitLines(sql)

ParseInit ==
  /\ \E ls \in SeqsUpTo(LineSet, MaxLines) : sql = JoinLines(ls, 1)
  /\ lineNo = 1
  /\ current = <<>>
  /\ dollarQuoteTag = NoTag
  /\ statements = <<>>
  /\ parsePc = "scan"

ParseIdle ==
  /\ sql = <<>>
  /\ lineNo = 0
  /\ current = <<>>
  /\ dollarQuoteTag = NoTag
  /\ statements = <<>>
  /\ parsePc = "idle"

\* One iteration of for (const line of lines).
ParseLine ==
  /\ parsePc = "scan"
  /\ lineNo <= Len(Lines)
  /\ LET line    == Lines[lineNo]
         trimmed == Trim(line)
     IN IF current = <<>> /\ (trimmed = <<>> \/ StartsWithComment(trimmed))
        THEN UNCHANGED <<current, dollarQuoteTag, statements>>
        ELSE LET cur == current \o line \o <<"\n">>
                 tag == ScanLine(line, 1, dollarQuoteTag)
                 stmt == Trim(cur)
             IN /\ dollarQuoteTag' = tag
                /\ IF StatementComplete(tag, trimmed)
                   THEN /\ statements' =
                             IF stmt # <<>> /\ ~StartsWithComment(stmt)
                             THEN Append(statements, StripSeparator(stmt))
                             ELSE statements
                        /\ current' = <<>>
                   ELSE /\ current' = cur
                        /\ UNCHANGED statements
  /\ lineNo' = lineNo + 1
  /\ UNCHANGED <<sql, parsePc>>
  /\ UNCHANGED <<sortVars, mainVars, dataVars, applyVars, rerunVars,
                 extractVars, regionVars, storageVars, documentVars, tripVars,
                 insertVars, exportVars, sequenceVars>>

\* After the loop: handle any remaining statement, and return.
ParseFinish ==
  /\ parsePc = "scan"
  /\ lineNo > Len(Lines)
  /\ statements' = IF Trim(current) # <<>> THEN Append(statements, Trim(current))
                   ELSE statements
  /\ parsePc' = "done"
  /\ UNCHANGED <<sql, lineNo, current, dollarQuoteTag>>
  /\ UNCHANGED <<sortVars, mainVars, dataVars, applyVars, rerunVars,
                 extractVars, regionVars, storageVars, documentVars, tripVars,
                 insertVars, exportVars, sequenceVars>>

ParseNext == ParseLine \/ ParseFinish

(***************************************************************************)
(* MigrationOrchestrator: parseArgs, main and the steps of the functions   *)
(* main awaits                                                             *)
(***************************************************************************)
\* The most command-line arguments in the model.
MaxArgs == 2

\* The objects of each kind the source catalog holds (and the statements of
\* an applied file) in the model.
NObj == 2

\* config.schemas
Schemas == <<"public">>

Stages ==
  {"schema", "functions", "triggers", "data", "rls", "grants", "storage", "verify"}

StageFlags ==
  {"--schema", "--functions", "--triggers", "--data", "--rls", "--grants",
   "--storage", "--verify"}

Flags == StageFlags \cup {"--export-sql", "--apply-sql", "--dry-run", "--all", "--help"}

\* The arguments: the flags of the switch, and a file path.
ArgSet == Flags \cup {"f.sql"}

\* args[i].startsWith('--')
StartsWithDashes(a) == a \in Flags

\* '--schema' -> 'schema', ...
StepOfFlag(a) ==
  CASE a = "--schema"    -> "schema"
    [] a = "--functions" -> "functions"
    [] a = "--triggers"  -> "triggers"
    [] a = "--data"      -> "data"
    [] a = "--rls"       -> "rls"
    [] a = "--grants"    -> "grants"
    [] a = "--storage"   -> "storage"
    [] a = "--verify"    -> "verify"

allSteps ==
  <<"schema", "functions", "triggers", "data", "rls", "grants", "storage", "verify">>

\* The for loop of parseArgs.
RECURSIVE parseArgsLoop(_, _, _)
parseArgsLoop(args, i, o) ==
  IF i > Len(args) \/ o.help THEN o
  ELSE LET arg == args[i] IN
       IF arg \in StageFlags
       THEN parseArgsLoop(args, i + 1, [o EXCEPT !.steps = Append(@, StepOfFlag(arg))])
       ELSE IF arg = "--export-sql"
       THEN parseArgsLoop(args, i + 1, [o EXCEPT !.exportSql = TRUE])
       ELSE IF arg = "--apply-sql"
       THEN IF i + 1 <= Len(args) /\ ~StartsWithDashes(args[i + 1])
            THEN parseArgsLoop(args, i + 2, [o EXCEPT !.applySql = args[i + 1]])
            ELSE parseArgsLoop(args, i + 1, [o EXCEPT !.applySql = "migration-complete.sql"])
       ELSE IF arg = "--dry-run"
       THEN parseArgsLoop(args, i + 1, [o EXCEPT !.dryRun = TRUE])
       ELSE IF arg = "--all"
       THEN parseArgsLoop(args, i + 1, [o EXCEPT !.steps = allSteps])
       ELSE IF arg = "--help"
       THEN [o EXCEPT !.help = TRUE]
       ELSE parseArgsLoop(args, i + 1, o)

\* The options parseArgs starts from; help stands for printHelp(); process.exit(0).
NoOptions ==
  [steps |-> <<>>, exportSql |-> FALSE, applySql |-> None, dryRun |-> FALSE,
   help |-> FALSE]

\* parseArgs without the default: no stage flag leaves the stage list empty.
parseArgsNoDefault(args) ==
  parseArgsLoop(args, 1, NoOptions)

parseArgs(args) ==
  LET o == parseArgsLoop(args, 1, NoOptions)
  IN IF o.steps = <<>> THEN [o EXCEPT !.steps = allSteps] ELSE o

\* options.steps.includes(step)
Includes(steps, step) == \E i \in DOMAIN steps : steps[i] = step

(***************************************************************************)
(* The steps of a function: what it does (a checkout of the target pool, a *)
(* query of the source, a statement applied to the target, ...) and the    *)
(* try block with a catch of its own it sits in, NoTry when an error of    *)
(* the step leaves the function.                                           *)
(***************************************************************************)
NoTry == <<>>

St(kind, try, what) == [kind |-> kind, try |-> try, what |-> what]

\* One statement per object, each in a try of its own.
Each(n, kind, what) == [i \in 1..n |-> St(kind, <<what, i>>, what)]

\* Two statements per object, both in the object's try.
RECURSIVE Pairs(_, _, _)
Pairs(n, first, second) ==
  IF n = 0 THEN <<>>
  ELSE Pairs(n - 1, first, second)
         \o <<St("apply", <<second, n>>, first), St("apply", <<second, n>>, second)>>

\* finally { targetClient.release() }, or the release that ends a try block.
Release == <<St("release", NoTry, "targetClient.release")>>

\* CREATE SCHEMA is issued outside any try.
CreateSchemas == [i \in DOMAIN Schemas |-> St("apply", NoTry, "CREATE SCHEMA")]

migrateSchema ==
  <<St("connect", NoTry, "targetPool.connect")>>
  \o CreateSchemas
  \o <<St("source", NoTry, "getExtensions")>> \o Each(NObj, "apply", "CREATE EXTENSION")
  \o <<St("source", NoTry, "getEnums")>> \o Each(NObj, "apply", "CREATE TYPE")
  \o <<St("source", NoTry, "getSequences")>> \o Pairs(NObj, "CREATE SEQUENCE", "setval")
  \o <<St("source", NoTry, "getTables")>> \o Each(NObj, "apply", "CREATE TABLE")
  \o <<St("source", NoTry, "getConstraints")>> \o Each(NObj, "apply", "ADD CONSTRAINT")
  \o <<St("source", NoTry, "getIndexes")>> \o Each(NObj, "apply", "CREATE INDEX")
  \o Each(NObj, "apply", "ADD FOREIGN KEY")
  \o <<St("source", NoTry, "getViews")>> \o Pairs(NObj, "DROP VIEW", "CREATE VIEW")
  \o Release

\* DROP FUNCTION has an inner try with an empty catch; CREATE follows in the outer try.
RECURSIVE DropCreateFunctions(_)
DropCreateFunctions(n) ==
  IF n = 0 THEN <<>>
  ELSE DropCreateFunctions(n - 1)
         \o <<St("apply", <<"DROP FUNCTION", n>>, "DROP FUNCTION"),
              St("apply", <<"CREATE FUNCTION", n>>, "CREATE FUNCTION")>>

migrateFunctions ==
  <<St("connect", NoTry, "targetPool.connect"), St("source", NoTry, "getFunctions")>>
  \o DropCreateFunctions(NObj)
  \o Release

migrateTriggers ==
  <<St("connect", NoTry, "targetPool.connect"), St("source", NoTry, "getTriggers")>>
  \o Pairs(NObj, "DROP TRIGGER", "CREATE TRIGGER")
  \o Release

\* Per table: a checkout, then TRUNCATE, one page fetched and inserted in the table's try.
RECURSIVE TransferTables(_)
TransferTables(n) ==
  IF n = 0 THEN <<>>
  ELSE TransferTables(n - 1)
         \o <<St("connect", NoTry, "targetPool.connect"),
              St("apply", <<"table", n>>, "TRUNCATE"),
              St("source", <<"table", n>>, "SELECT page"),
              St("apply", <<"table", n>>, "INSERT")>>
         \o Release

migrateData ==
  <<St("source", NoTry, "getTablesForDataMigration"),
    St("connect", NoTry, "targetPool.connect"),
    St("apply", NoTry, "SET session_replication_role = replica")>>
  \o Release
  \o TransferTables(NObj)
  \o <<St("connect", NoTry, "targetPool.connect"),
       St("apply", NoTry, "SET session_replication_role = DEFAULT")>>
  \o Release

migrateRLS ==
  <<St("connect", NoTry, "targetPool.connect"), St("source", NoTry, "getTableRLSStatus")>>
  \o Pairs(NObj, "ENABLE ROW LEVEL SECURITY", "FORCE ROW LEVEL SECURITY")
  \o <<St("source", NoTry, "getRLSPolicies")>>
  \o Pairs(NObj, "DROP POLICY", "CREATE POLICY")
  \o Release

MaxElems == 2

\* roles = ['anon', 'authenticated', 'service_role']
NRoles == 3

migrateGrants ==
  <<St("connect", NoTry, "targetPool.connect")>>
  \o Each(NRoles, "apply", "CREATE ROLE")
  \o <<St("source", NoTry, "getGrants")>> \o Each(NObj, "apply", "GRANT")
  \o Each(Len(Schemas) * NRoles, "apply", "GRANT USAGE ON SCHEMA")
  \o Each(Len(Schemas), "apply", "GRANT ON ALL SEQUENCES")
  \o Each(Len(Schemas), "apply", "GRANT ON ALL FUNCTIONS")
  \o Release

\* The storage API reports its errors in the value it returns.
migrateStorage == <<St("api", <<"storage", 1>>, "storage API")>>

verifyDataMigration ==
  <<St("source", NoTry, "getTablesForDataMigration")>>
  \o [i \in 1..NObj |-> St("read", NoTry, "SELECT COUNT(*)")]

verifyStorageMigration == <<St("api", NoTry, "storage API")>>

testConnections(sourceOnly) ==
  <<St("srcconnect", NoTry, "srcPool.connect"), St("source", NoTry, "SELECT version()")>>
  \o IF sourceOnly THEN <<>>
     ELSE <<St("connect", NoTry, "tgtPool.connect"), St("read", NoTry, "SELECT version()")>>
          \o Release

initPools == <<St("init", NoTry, "getSourcePool, getTargetPool")>>

exportSQL ==
  <<St("source", NoTry, "exportSchemaToSQL"), St("file", NoTry, "writeFile"),
    St("source", NoTry, "exportFunctionsToSQL"), St("file", NoTry, "writeFile"),
    St("source", NoTry, "exportRLSToSQL"), St("file", NoTry, "writeFile"),
    St("source", NoTry, "exportGrantsToSQL"), St("file", NoTry, "writeFile"),
    St("source", NoTry, "exportDataToSQL"), St("file", NoTry, "writeFile"),
    St("file", NoTry, "writeFile"), St("file", NoTry, "writeFile")>>

applySQL ==
  <<St("file", NoTry, "fs.access"), St("file", NoTry, "fs.readFile"),
    St("connect", NoTry, "tgtPool.connect")>>
  \o Each(NObj, "apply", "statement")
  \o Release

PlanOf(f, o) ==
  CASE f = "testConnections" -> testConnections(o.exportSql)
    [] f = "initPools"       -> initPools
    [] f = "exportSQL"       -> exportSQL
    [] f = "applySQL"        -> applySQL
    [] f = "dryRun"          -> <<>>
    [] f = "schema"          -> migrateSchema
    [] f = "functions"       -> migrateFunctions
    [] f = "triggers"        -> migrateTriggers
    [] f = "data"            -> migrateData
    [] f = "rls"             -> migrateRLS
    [] f = "grants"          -> migrateGrants
    [] f = "storage"         -> migrateStorage
    [] f = "verify"          -> verifyDataMigration
    [] f = "verifyStorage"   -> verifyStorageMigration

NoError == [fn |-> None, kind |-> None, what |-> None]

\* No function releases its connection in a finally.
NoFinally(f) == FALSE

\* The functions whose checkout is followed by try { ... } finally { release() }:
\* all but testConnections, which releases at the end of its try block only.
HasFinally(f) == f # "testConnections"

\* The connections held after the step: a checkout that succeeded adds one, a
\* release gives one back.
HeldAfter(step, h) ==
  IF step.kind = "connect" THEN h + 1
  ELSE IF step.kind = "release" THEN h - 1
  ELSE h

\* The steps that can raise an error.
CanFail(step) == step.kind \in {"connect", "srcconnect", "source", "apply", "read", "file"}

\* A catch that leaves the loop: control goes to the last step, the release.
AfterTryLeavesLoop(plan, i) == Len(plan)

\* Where control goes after a catch: past the steps of the same try.
AfterTry(plan, i) ==
  IF \E j \in (i + 1)..Len(plan) : plan[j].try # plan[i].try
  THEN CHOOSE j \in (i + 1)..Len(plan) :
         /\ plan[j].try # plan[i].try
         /\ \A k \in (i + 1)..(j - 1) : plan[k].try = plan[i].try
  ELSE Len(plan) + 1

\* The order of main's statements, the data stage ahead of the triggers.
MainSequenceDataFirst ==
  <<"testConnections", "initPools", "exportSQL", "applySQL", "dryRun",
    "schema", "functions", "data", "triggers", "rls", "grants", "storage",
    "verify", "verifyStorage">>

\* The order of the statements of main's try block.
MainSequence ==
  <<"testConnections", "initPools", "exportSQL", "applySQL", "dryRun",
    "schema", "functions", "triggers", "data", "rls", "grants", "storage",
    "verify", "verifyStorage">>

\* The condition under which main calls f.
Selected(f, o) ==
  CASE f \in {"testConnections", "initPools"} -> TRUE
    [] f = "exportSQL"     -> o.exportSql
    [] f = "applySQL"      -> o.applySql # None
    [] f = "dryRun"        -> o.dryRun
    [] f = "verifyStorage" -> Includes(o.steps, "verify") /\ Includes(o.steps, "storage")
    [] OTHER               -> Includes(o.steps, f)

\* The branches of main that end with return.
Returns(f) == f \in {"exportSQL", "applySQL", "dryRun"}

MainInit ==
  /\ argv \in SeqsUpTo(ArgSet, MaxArgs)
  /\ options = NoOptions
  /\ mainPc = 0
  /\ fn = None
  /\ ip = 0
  /\ calls = <<>>
  /\ thrown = NoError
  /\ caught = FALSE
  /\ targetTouched = FALSE
  /\ exitCode = None
  /\ poolsClosed = FALSE
  /\ held = 0

MainIdle ==
  /\ argv = <<>>
  /\ options = NoOptions
  /\ mainPc = -1
  /\ fn = None
  /\ ip = 0
  /\ calls = <<>>
  /\ thrown = NoError
  /\ caught = FALSE
  /\ targetTouched = FALSE
  /\ exitCode = None
  /\ poolsClosed = FALSE
  /\ held = 0

\* const options = parseArgs(), which exits on --help.
MainParseArgs ==
  /\ mainPc = 0 /\ exitCode = None
  /\ LET o == parseArgs(argv)
     IN IF o.help
        THEN /\ exitCode' = "0"
             /\ UNCHANGED <<options, mainPc>>
        ELSE /\ options' = o
             /\ mainPc' = 1
             /\ UNCHANGED exitCode
  /\ UNCHANGED <<argv, fn, ip, calls, thrown, caught, targetTouched, poolsClosed, held>>
  /\ UNCHANGED <<sortVars, parseVars, dataVars, applyVars, rerunVars,
                 extractVars, regionVars, storageVars, documentVars, tripVars,
                 insertVars, exportVars, sequenceVars>>

\* main reaches a statement of its try block and calls the function.
MainCall ==
  /\ mainPc \in DOMAIN MainSequence /\ fn = None /\ exitCode = None
  /\ Selected(MainSequence[mainPc], options)
  /\ fn' = MainSequence[mainPc]
  /\ ip' = 1
  /\ calls' = Append(calls, MainSequence[mainPc])
  /\ UNCHANGED <<argv, options, mainPc, thrown, caught, targetTouched, exitCode,
                 poolsClosed, held>>
  /\ UNCHANGED <<sortVars, parseVars, dataVars, applyVars, rerunVars,
                 extractVars, regionVars, storageVars, documentVars, tripVars,
                 insertVars, exportVars, sequenceVars>>

\* The condition of the if is false.
MainSkip ==
  /\ mainPc \in DOMAIN MainSequence /\ fn = None /\ exitCode = None
  /\ ~Selected(MainSequence[mainPc], options)
  /\ mainPc' = mainPc + 1
  /\ UNCHANGED <<argv, options, fn, ip, calls, thrown, caught, targetTouched,
                 exitCode, poolsClosed, held>>
  /\ UNCHANGED <<sortVars, parseVars, dataVars, applyVars, rerunVars,
                 extractVars, regionVars, storageVars, documentVars, tripVars,
                 insertVars, exportVars, sequenceVars>>

\* A step of the awaited function succeeds.
StepOk ==
  /\ fn # None /\ exitCode = None
  /\ ip <= Len(PlanOf(fn, options))
  /\ ip' = ip + 1
  /\ targetTouched' = (targetTouched \/ PlanOf(fn, options)[ip].kind = "apply")
  /\ held' = HeldAfter(PlanOf(fn, options)[ip], held)
  /\ UNCHANGED <<argv, options, mainPc, fn, calls, thrown, caught, exitCode,
                 poolsClosed>>
  /\ UNCHANGED <<sortVars, parseVars, dataVars, applyVars, rerunVars,
                 extractVars, regionVars, storageVars, documentVars, tripVars,
                 insertVars, exportVars, sequenceVars>>

\* A step fails inside a try with a catch: the catch logs, the function goes on.
StepCaught ==
  /\ fn # None /\ exitCode = None
  /\ ip <= Len(PlanOf(fn, options))
  /\ LET plan == PlanOf(fn, options)
     IN /\ CanFail(plan[ip])
        /\ plan[ip].try # NoTry
        /\ ip' = AfterTry(plan, ip)
        /\ targetTouched' = (targetTouched \/ plan[ip].kind = "apply")
  /\ caught' = TRUE
  /\ UNCHANGED <<argv, options, mainPc, fn, calls, thrown, exitCode, poolsClosed, held>>
  /\ UNCHANGED <<sortVars, parseVars, dataVars, applyVars, rerunVars,
                 extractVars, regionVars, storageVars, documentVars, tripVars,
                 insertVars, exportVars, sequenceVars>>

\* A step fails outside any catch: the error leaves the function (its finally
\* releases the connection) and reaches the catch of main.
StepThrows ==
  /\ fn # None /\ exitCode = None
  /\ ip <= Len(PlanOf(fn, options))
  /\ LET plan == PlanOf(fn, options)
     IN /\ CanFail(plan[ip])
        /\ plan[ip].try = NoTry
        /\ thrown' = [fn |-> fn, kind |-> plan[ip].kind, what |-> plan[ip].what]
        /\ targetTouched' = (targetTouched \/ plan[ip].kind = "apply")
  /\ held' = IF held > 0 /\ HasFinally(fn) THEN held - 1 ELSE held
  /\ fn' = None
  /\ mainPc' = Len(MainSequence) + 2
  /\ UNCHANGED <<argv, options, ip, calls, caught, exitCode, poolsClosed>>
  /\ UNCHANGED <<sortVars, parseVars, dataVars, applyVars, rerunVars,
                 extractVars, regionVars, storageVars, documentVars, tripVars,
                 insertVars, exportVars, sequenceVars>>

\* The awaited function returns; export, apply and dry run make main return.
FnReturn ==
  /\ fn # None /\ exitCode = None
  /\ ip > Len(PlanOf(fn, options))
  /\ mainPc' = IF Returns(fn) THEN Len(MainSequence) + 1 ELSE mainPc + 1
  /\ fn' = None
  /\ UNCHANGED <<argv, options, ip, calls, thrown, caught, targetTouched, exitCode,
                 poolsClosed, held>>
  /\ UNCHANGED <<sortVars, parseVars, dataVars, applyVars, rerunVars,
                 extractVars, regionVars, storageVars, documentVars, tripVars,
                 insertVars, exportVars, sequenceVars>>

\* catch (error) { console.error(...); process.exit(1) }: the process ends there.
MainCatch ==
  /\ mainPc = Len(MainSequence) + 2 /\ exitCode = None
  /\ exitCode' = "1"
  /\ UNCHANGED <<argv, options, mainPc, fn, ip, calls, thrown, caught, targetTouched,
                 poolsClosed, held>>
  /\ UNCHANGED <<sortVars, parseVars, dataVars, applyVars, rerunVars,
                 extractVars, regionVars, storageVars, documentVars, tripVars,
                 insertVars, exportVars, sequenceVars>>

\* finally { await closePools() } after the try block ended or returned.
MainFinally ==
  /\ mainPc = Len(MainSequence) + 1 /\ exitCode = None
  /\ poolsClosed' = TRUE
  /\ exitCode' = "0"
  /\ UNCHANGED <<argv, options, mainPc, fn, ip, calls, thrown, caught, targetTouched,
                 held>>
  /\ UNCHANGED <<sortVars, parseVars, dataVars, applyVars, rerunVars,
                 extractVars, regionVars, storageVars, documentVars, tripVars,
                 insertVars, exportVars, sequenceVars>>

MainNext ==
  \/ MainParseArgs
  \/ MainCall
  \/ MainSkip
  \/ StepOk
  \/ StepCaught
  \/ StepThrows
  \/ FnReturn
  \/ MainCatch
  \/ MainFinally

(***************************************************************************)
(* BatchTransferEngine: migrateData and migrateTableData                   *)
(***************************************************************************)
\* The most tables of the data stage in the model.
MaxTables == 2

\* The largest row count of a table in the model.
MaxRows == 3

\* The largest page size in the model.
MaxBatch == 2

\* The most sessions the target pool opens during one run in the model.
MaxSessions == 2

Min(a, b) == IF a <= b THEN a ELSE b

Max(a, b) == IF a >= b THEN a ELSE b

\* The stats migrateTableData starts from.  fetches and erred record the pages
\* fetched and whether the catch block ran.
NewStats(table) ==
  [totalRows |-> table.rowCount, migratedRows |-> 0, status |-> "success",
   fetches |-> 0, erred |-> FALSE, io |-> <<>>]

NoStats == [totalRows |-> 0, migratedRows |-> 0, status |-> None,
            fetches |-> 0, erred |-> FALSE, io |-> <<>>]

\* The stats with one more operation on record in io: a checkout of the target
\* pool, a TRUNCATE, a fetch with the rows of its page (-1 when the query
\* failed), an INSERT with its rows.
Did(st, op, rows) == [st EXCEPT !.io = Append(@, <<op, rows>>)]

\* A migrateTableData that skips no table.
IsEmptyTableNever(table) == FALSE

\* if (table.rowCount === 0)
IsEmptyTable(table) == table.rowCount = 0

\* A catch block that logs and leaves the status alone.
CatchKeepsStatus(st) == [st EXCEPT !.erred = TRUE]

\* catch (error) { stats.status = 'failed'; stats.error = ... }
Catch(st) == [st EXCEPT !.status = "failed", !.erred = TRUE]

\* parseInt of a BATCH_SIZE that is no number: NaN, written as a number that
\* is no offset and no batch size; comparisons with it are false, sums are NaN.
NaN == -2

\* while (offset <= table.rowCount)
LoopCondInclusive(off, rowCount) == off <= rowCount

\* while (offset < table.rowCount)
LoopCond(off, rowCount) == off # NaN /\ off < rowCount

\* A LIMIT 0 that limits nothing.
PageRowsZeroUnlimited(n, limit, off) ==
  IF limit = 0 THEN Max(0, n - off) ELSE Min(limit, Max(0, n - off))

\* The rows SELECT ... LIMIT limit OFFSET off returns from a table of n rows.
PageRows(n, limit, off) == Min(limit, Max(0, n - off))

\* The query runs: LIMIT NaN and a negative LIMIT are errors of the query.
LimitAccepted(limit) == limit # NaN /\ limit >= 0

\* offset += batchSize
AddBatch(off, size) == IF off = NaN \/ size = NaN THEN NaN ELSE off + size

\* The session the pool hands out: the idle one when it has one (0 when it has
\* to open a new one).
IdleSession ==
  IF \E s \in DOMAIN sess : sess[s].alive
  THEN CHOOSE s \in DOMAIN sess : sess[s].alive
  ELSE 0

\* SET session_replication_role = replica: triggers do not fire.
Suspended(s) == sess[s].role = "replica"

TableInfos(rows) == [rowCount : rows]

\* The whole data stage: several tables, empty or of several pages.
DataInit ==
  /\ batchSize = MaxBatch
  /\ dTables \in SeqsUpTo(TableInfos({0, MaxRows}), MaxTables)
  /\ srcRows = [i \in DOMAIN dTables |-> dTables[i].rowCount]
  /\ sess \in {<<>>, <<[role |-> "origin", alive |-> TRUE]>>}
  /\ client = 0
  /\ dataPc = "start"
  /\ ti = 0
  /\ offset = 0
  /\ page = 0
  /\ stats = NoStats
  /\ results = <<>>
  /\ dataErr = None
  /\ unsuspended = FALSE
  /\ dNames = [i \in DOMAIN dTables |-> Key(TableUniverse[i])]
  /\ dRefs = {}
  /\ tRows = [n \in Range(dNames) |-> 0]

\* One table: every row count, every page size (0, a negative one and NaN included),
\* a source whose row count may have changed since it was counted.
PagingInit ==
  /\ batchSize \in (-1..MaxBatch) \cup {NaN}
  /\ dTables \in [1..1 -> TableInfos(0..MaxRows)]
  /\ srcRows \in [1..1 -> 0..MaxRows]
  /\ sess \in {<<>>, <<[role |-> "origin", alive |-> TRUE]>>}
  /\ client = 0
  /\ dataPc = "start"
  /\ ti = 0
  /\ offset = 0
  /\ page = 0
  /\ stats = NoStats
  /\ results = <<>>
  /\ dataErr = None
  /\ unsuspended = FALSE
  /\ dNames = [i \in DOMAIN dTables |-> Key(TableUniverse[i])]
  /\ dRefs = {}
  /\ tRows = [n \in Range(dNames) |-> 0]

\* The tables of a target with foreign keys, transferred in any order (a table
\* may come twice, as in the list sortByDependency returns for a cycle); the
\* target holds one stale row per table.
CascadeNames == {"public.a", "public.b"}

CascadeInit ==
  /\ batchSize = MaxBatch
  /\ dNames \in SeqsUpTo(CascadeNames, MaxTables)
  /\ dRefs \in SUBSET (CascadeNames \X CascadeNames)
  /\ \E rc \in [CascadeNames -> {0, MaxRows}] :
       /\ dTables = [i \in DOMAIN dNames |-> [rowCount |-> rc[dNames[i]]]]
       /\ srcRows = [i \in DOMAIN dNames |-> rc[dNames[i]]]
  /\ tRows = [n \in CascadeNames |-> 1]
  /\ sess = <<>>
  /\ client = 0
  /\ dataPc = "start"
  /\ ti = 0
  /\ offset = 0
  /\ page = 0
  /\ stats = NoStats
  /\ results = <<>>
  /\ dataErr = None
  /\ unsuspended = FALSE

DataIdle ==
  /\ batchSize = 0
  /\ dTables = <<>>
  /\ srcRows = <<>>
  /\ sess = <<>>
  /\ client = 0
  /\ dataPc = "idle"
  /\ ti = 0
  /\ offset = 0
  /\ page = 0
  /\ stats = NoStats
  /\ results = <<>>
  /\ dataErr = None
  /\ unsuspended = FALSE
  /\ dNames = <<>>
  /\ dRefs = {}
  /\ tRows = <<>>

\* The tables TRUNCATE name CASCADE empties: the table and, in turn, every
\* table with a foreign key to a table that is emptied.
RECURSIVE CascadeSet(_, _)
CascadeSet(S, refs) ==
  LET S2 == S \cup {e[1] : e \in {e \in refs : e[2] \in S}}
  IN IF S2 = S THEN S ELSE CascadeSet(S2, refs)

\* TRUNCATE name CASCADE
TruncateCascade(rows, name, refs) ==
  [n \in DOMAIN rows |-> IF n \in CascadeSet({name}, refs) THEN 0 ELSE rows[n]]

\* targetPool.connect() hands out the idle session.
Checkout(next) ==
  /\ IdleSession # 0
  /\ client' = IdleSession
  /\ dataPc' = next
  /\ UNCHANGED sess

\* targetPool.connect() opens a new session.
CheckoutNew(next) ==
  /\ IdleSession = 0
  /\ Len(sess) < MaxSessions
  /\ sess' = Append(sess, [role |-> "origin", alive |-> TRUE])
  /\ client' = Len(sess) + 1
  /\ dataPc' = next
 
\* targetPool.connect() rejects: no session could be opened.
CheckoutFails ==
  /\ IdleSession = 0
  /\ dataErr' = "connect"
  /\ dataPc' = "thrown"
  /\ UNCHANGED <<sess, client>>

\* An idle session of the pool ends (the connection is lost, or idles out).
SessionLost ==
  /\ dataPc \notin {"idle", "returned", "thrown"}
  /\ client = 0
  /\ IdleSession # 0
  /\ sess' = [sess EXCEPT ![IdleSession].alive = FALSE]
  /\ UNCHANGED <<dNames, dRefs, tRows>>
  /\ UNCHANGED <<batchSize, dTables, srcRows, client, dataPc, ti, offset, page, stats,
                 results, dataErr, unsuspended>>
  /\ UNCHANGED <<sortVars, parseVars, mainVars, applyVars, rerunVars,
                 extractVars, regionVars, storageVars, documentVars, tripVars,
                 insertVars, exportVars, sequenceVars>>

\* migrateData: const targetClient = await targetPool.connect()
DataConnect ==
  /\ dataPc = "start"
  /\ \/ Checkout("setReplica") /\ UNCHANGED dataErr
     \/ CheckoutNew("setReplica") /\ UNCHANGED dataErr
     \/ CheckoutFails
  /\ UNCHANGED <<dNames, dRefs, tRows>>
  /\ UNCHANGED <<batchSize, dTables, srcRows, ti, offset, page, stats, results,
                 unsuspended>>
  /\ UNCHANGED <<sortVars, parseVars, mainVars, applyVars, rerunVars,
                 extractVars, regionVars, storageVars, documentVars, tripVars,
                 insertVars, exportVars, sequenceVars>>

\* try { SET session_replication_role = replica } finally { release() }
DataSetReplica ==
  /\ dataPc = "setReplica"
  /\ \/ /\ sess' = [sess EXCEPT ![client].role = "replica"]
        /\ dataPc' = "loop"
        /\ ti' = 1
        /\ UNCHANGED dataErr
     \/ /\ dataErr' = "SET"
        /\ dataPc' = "thrown"
        /\ UNCHANGED <<sess, ti>>
  /\ client' = 0
  /\ UNCHANGED <<dNames, dRefs, tRows>>
  /\ UNCHANGED <<batchSize, dTables, srcRows, offset, page, stats, results,
                 unsuspended>>
  /\ UNCHANGED <<sortVars, parseVars, mainVars, applyVars, rerunVars,
                 extractVars, regionVars, storageVars, documentVars, tripVars,
                 insertVars, exportVars, sequenceVars>>

\* migrateTableData for a table whose rowCount is 0: skipped, no I/O.
TableSkipped ==
  /\ dataPc = "loop" /\ ti <= Len(dTables)
  /\ IsEmptyTable(dTables[ti])
  /\ results' = Append(results, [NewStats(dTables[ti]) EXCEPT !.status = "skipped"])
  /\ ti' = ti + 1
  /\ UNCHANGED <<dNames, dRefs, tRows>>
  /\ UNCHANGED <<batchSize, dTables, srcRows, sess, client, dataPc, offset, page,
                 stats, dataErr, unsuspended>>
  /\ UNCHANGED <<sortVars, parseVars, mainVars, applyVars, rerunVars,
                 extractVars, regionVars, storageVars, documentVars, tripVars,
                 insertVars, exportVars, sequenceVars>>

\* migrateTableData: const targetClient = await targetPool.connect(), outside the try.
TableConnect ==
  /\ dataPc = "loop" /\ ti <= Len(dTables)
  /\ ~IsEmptyTable(dTables[ti])
  /\ \/ Checkout("truncate") /\ stats' = Did(NewStats(dTables[ti]), "connect", 0)
        /\ UNCHANGED dataErr
     \/ CheckoutNew("truncate") /\ stats' = Did(NewStats(dTables[ti]), "connect", 0)
        /\ UNCHANGED dataErr
     \/ CheckoutFails /\ UNCHANGED stats
  /\ UNCHANGED <<dNames, dRefs, tRows>>
  /\ UNCHANGED <<batchSize, dTables, srcRows, ti, offset, page, results, unsuspended>>
  /\ UNCHANGED <<sortVars, parseVars, mainVars, applyVars, rerunVars,
                 extractVars, regionVars, storageVars, documentVars, tripVars,
                 insertVars, exportVars, sequenceVars>>

\* catch, finally { release() }, return stats; migrateData pushes them and goes on.
TableEnds(st) ==
  /\ results' = Append(results, st)
  /\ stats' = NoStats
  /\ client' = 0
  /\ ti' = ti + 1
  /\ offset' = 0
  /\ page' = 0
  /\ dataPc' = "loop"

\* TRUNCATE ... CASCADE
TableTruncate ==
  /\ dataPc = "truncate"
  /\ unsuspended' = (unsuspended \/ ~Suspended(client))
  /\ \/ /\ dataPc' = "paging"
        /\ offset' = 0
        /\ stats' = Did(stats, "truncate", 0)
        /\ tRows' = TruncateCascade(tRows, dNames[ti], dRefs)
        /\ UNCHANGED <<client, ti, page, results>>
     \/ TableEnds(Catch(Did(stats, "truncate", 0))) /\ UNCHANGED tRows
  /\ UNCHANGED <<dNames, dRefs>>
  /\ UNCHANGED <<batchSize, dTables, srcRows, sess, dataErr>>
  /\ UNCHANGED <<sortVars, parseVars, mainVars, applyVars, rerunVars,
                 extractVars, regionVars, storageVars, documentVars, tripVars,
                 insertVars, exportVars, sequenceVars>>

\* The while condition is false, or the page fetched is empty: the loop ends.
TablePagingEnds ==
  /\ dataPc = "paging"
  /\ ~LoopCond(offset, dTables[ti].rowCount)
  /\ TableEnds(stats)
  /\ UNCHANGED <<dNames, dRefs, tRows>>
  /\ UNCHANGED <<batchSize, dTables, srcRows, sess, dataErr, unsuspended>>
  /\ UNCHANGED <<sortVars, parseVars, mainVars, applyVars, rerunVars,
                 extractVars, regionVars, storageVars, documentVars, tripVars,
                 insertVars, exportVars, sequenceVars>>

\* sourcePool.query(SELECT ... LIMIT batchSize OFFSET offset); a negative LIMIT
\* is an error of the query.
TableFetch ==
  /\ dataPc = "paging"
  /\ LoopCond(offset, dTables[ti].rowCount)
  /\ \/ /\ LimitAccepted(batchSize)
        /\ LET rows == PageRows(srcRows[ti], batchSize, offset)
               st   == Did([stats EXCEPT !.fetches = @ + 1], "fetch", rows)
           IN IF rows = 0
              THEN TableEnds(st)
              ELSE /\ page' = rows
                   /\ stats' = st
                   /\ dataPc' = "insert"
                   /\ UNCHANGED <<client, ti, offset, results>>
     \/ TableEnds(Catch(Did([stats EXCEPT !.fetches = @ + 1], "fetch", -1)))
  /\ UNCHANGED <<dNames, dRefs, tRows>>
  /\ UNCHANGED <<batchSize, dTables, srcRows, sess, dataErr, unsuspended>>
  /\ UNCHANGED <<sortVars, parseVars, mainVars, applyVars, rerunVars,
                 extractVars, regionVars, storageVars, documentVars, tripVars,
                 insertVars, exportVars, sequenceVars>>

\* targetClient.query(insertQuery, values); migratedRows += rows; offset += batchSize
TableInsert ==
  /\ dataPc = "insert"
  /\ unsuspended' = (unsuspended \/ ~Suspended(client))
  /\ \/ /\ stats' = Did([stats EXCEPT !.migratedRows = @ + page], "insert", page)
        /\ offset' = AddBatch(offset, batchSize)
        /\ tRows' = [tRows EXCEPT ![dNames[ti]] = @ + page]
        /\ dataPc' = "paging"
        /\ UNCHANGED <<client, ti, page, results>>
     \/ TableEnds(Catch(Did(stats, "insert", page))) /\ UNCHANGED tRows
  /\ UNCHANGED <<dNames, dRefs>>
  /\ UNCHANGED <<batchSize, dTables, srcRows, sess, dataErr>>
  /\ UNCHANGED <<sortVars, parseVars, mainVars, applyVars, rerunVars,
                 extractVars, regionVars, storageVars, documentVars, tripVars,
                 insertVars, exportVars, sequenceVars>>

\* After the loop: const targetClient2 = await targetPool.connect()
DataConnect2 ==
  /\ dataPc = "loop" /\ ti > Len(dTables)
  /\ \/ Checkout("setDefault") /\ UNCHANGED dataErr
     \/ CheckoutNew("setDefault") /\ UNCHANGED dataErr
     \/ CheckoutFails
  /\ UNCHANGED <<dNames, dRefs, tRows>>
  /\ UNCHANGED <<batchSize, dTables, srcRows, ti, offset, page, stats, results,
                 unsuspended>>
  /\ UNCHANGED <<sortVars, parseVars, mainVars, applyVars, rerunVars,
                 extractVars, regionVars, storageVars, documentVars, tripVars,
                 insertVars, exportVars, sequenceVars>>

\* try { SET session_replication_role = DEFAULT } finally { release() }; return results
DataSetDefault ==
  /\ dataPc = "setDefault"
  /\ \/ /\ sess' = [sess EXCEPT ![client].role = "origin"]
        /\ dataPc' = "returned"
        /\ UNCHANGED dataErr
     \/ /\ dataErr' = "SET"
        /\ dataPc' = "thrown"
        /\ UNCHANGED sess
  /\ client' = 0
  /\ UNCHANGED <<dNames, dRefs, tRows>>
  /\ UNCHANGED <<batchSize, dTables, srcRows, ti, offset, page, stats, results,
                 unsuspended>>
  /\ UNCHANGED <<sortVars, parseVars, mainVars, applyVars, rerunVars,
                 extractVars, regionVars, storageVars, documentVars, tripVars,
                 insertVars, exportVars, sequenceVars>>

DataNext ==
  \/ SessionLost
  \/ DataConnect
  \/ DataSetReplica
  \/ TableSkipped
  \/ TableConnect
  \/ TableTruncate
  \/ TablePagingEnds
  \/ TableFetch
  \/ TableInsert
  \/ DataConnect2
  \/ DataSetDefault

(***************************************************************************)
(* applySQL: the loop over the statements of the file                      *)
(***************************************************************************)
\* The most statements of an applied file in the model.
MaxStatements == 3

\* A statement of the file: SQL text, the empty string, or text that starts
\* with '--'.
StatementKinds == {"sql", "", "--"}

\* Error messages of the target, as the phrases they are made of.
ErrorMessages ==
  { <<"relation", "already exists">>,
    <<"duplicate", "key value">>,
    <<"type", "already exists", "duplicate">>,
    <<"syntax error">>,
    <<"permission denied">> }

\* message.includes(phrase)
MessageIncludes(message, phrase) == \E k \in DOMAIN message : message[k] = phrase

\* Every error is counted as a failure.
DuplicateNever(message) == FALSE

\* message.includes('already exists') || message.includes('duplicate')
IsDuplicate(message) ==
  MessageIncludes(message, "already exists") \/ MessageIncludes(message, "duplicate")

\* if (!stmt || stmt.startsWith('--')) continue
SkipsStatement(stmt) == stmt = "" \/ stmt = "--"

\* After readFile, parseSQLStatements and the checkout of the target client.
ApplyInit ==
  /\ aStatements \in SeqsUpTo(StatementKinds, MaxStatements)
  /\ aI = 1
  /\ success = 0
  /\ failed = 0
  /\ aLog = <<>>
  /\ aPc = "loop"

ApplyIdle ==
  /\ aStatements = <<>>
  /\ aI = 0
  /\ success = 0
  /\ failed = 0
  /\ aLog = <<>>
  /\ aPc = "idle"

\* continue
ApplySkip ==
  /\ aPc = "loop" /\ aI <= Len(aStatements)
  /\ SkipsStatement(aStatements[aI])
  /\ aI' = aI + 1
  /\ UNCHANGED <<aStatements, success, failed, aLog, aPc>>
  /\ UNCHANGED <<sortVars, parseVars, mainVars, dataVars, rerunVars,
                 extractVars, regionVars, storageVars, documentVars, tripVars,
                 insertVars, exportVars, sequenceVars>>

\* await targetClient.query(stmt); success++
ApplyOk ==
  /\ aPc = "loop" /\ aI <= Len(aStatements)
  /\ ~SkipsStatement(aStatements[aI])
  /\ success' = success + 1
  /\ aLog' = Append(aLog, [i |-> aI, error |-> <<>>])
  /\ aI' = aI + 1
  /\ UNCHANGED <<aStatements, failed, aPc>>
  /\ UNCHANGED <<sortVars, parseVars, mainVars, dataVars, rerunVars,
                 extractVars, regionVars, storageVars, documentVars, tripVars,
                 insertVars, exportVars, sequenceVars>>

\* catch (error): success++ for a duplicate, failed++ otherwise; the loop goes on.
ApplyError ==
  /\ aPc = "loop" /\ aI <= Len(aStatements)
  /\ ~SkipsStatement(aStatements[aI])
  /\ \E message \in ErrorMessages :
       /\ IF IsDuplicate(message)
          THEN success' = success + 1 /\ UNCHANGED failed
          ELSE failed' = failed + 1 /\ UNCHANGED success
       /\ aLog' = Append(aLog, [i |-> aI, error |-> message])
  /\ aI' = aI + 1
  /\ UNCHANGED <<aStatements, aPc>>
  /\ UNCHANGED <<sortVars, parseVars, mainVars, dataVars, rerunVars,
                 extractVars, regionVars, storageVars, documentVars, tripVars,
                 insertVars, exportVars, sequenceVars>>

\* The loop ends: the counts are printed, finally releases the client.
ApplyDone ==
  /\ aPc = "loop" /\ aI > Len(aStatements)
  /\ aPc' = "done"
  /\ UNCHANGED <<aStatements, aI, success, failed, aLog>>
  /\ UNCHANGED <<sortVars, parseVars, mainVars, dataVars, rerunVars,
                 extractVars, regionVars, storageVars, documentVars, tripVars,
                 insertVars, exportVars, sequenceVars>>

ApplyNext == ApplySkip \/ ApplyOk \/ ApplyError \/ ApplyDone

(***************************************************************************)
(* A stage run against a target that already holds what the source holds:  *)
(* the statements migrateSchema, migrateFunctions, migrateTriggers,        *)
(* migrateRLS and migrateGrants issue, what each does to the target, and   *)
(* what the catch around it reports; and the document exportSchemaToSQL    *)
(* builds.                                                                 *)
(***************************************************************************)
\* getConstraints: ORDER BY CASE contype WHEN 'p' .. 'u' .. 'c' .. 'f'
ConstraintTypes == <<"p", "u", "c", "f">>

\* The source catalogs of the model: one extension, enum type, sequence and
\* table; the constraints of the table; its indexes; two views, one of which
\* may read the other; two functions; a trigger that calls one of them; a
\* policy whose expression may call one.
Catalogs ==
  [ constraints : {SelectSeq(ConstraintTypes, LAMBDA t : t \in S) :
                     S \in SUBSET {"p", "u", "c", "f"}},
    indexes     : {<<"plain">>, <<"plain", "unique">>},
    views       : {<<"v1", "v2">>},
    reads       : {[v \in {"v1", "v2"} |-> {}],
                   [v \in {"v1", "v2"} |-> IF v = "v1" THEN {"v2"} ELSE {}],
                   [v \in {"v1", "v2"} |-> IF v = "v2" THEN {"v1"} ELSE {}]},
    functions   : {<<"f1", "f2">>},
    triggers    : {<<[name |-> "g1", fn |-> f]>> : f \in {"f1", "f2"}},
    policies    : {<<[name |-> "p1", fn |-> f]>> : f \in {None, "f1"}} ]

RerunStages == {"schema", "functions", "triggers", "rls", "grants", "export"}

\* The target after a complete migration of the catalog.
FullyMigrated(cat) ==
  [ constraints |-> Range(cat.constraints),
    indexes     |-> Range(cat.indexes),
    views       |-> Range(cat.views),
    functions   |-> Range(cat.functions),
    triggers    |-> {g.name : g \in Range(cat.triggers)},
    policies    |-> {p.name : p \in Range(cat.policies)} ]

\* A statement: the section (loop) that issues it, its form, its object, the
\* try block it sits in and what that try's catch does: "none" (no catch),
\* "log" (reports every error), "quiet" (reports unless the message includes
\* 'already exists'), "empty" (catch {}).
Stmt(section, op, obj, try, catch) ==
  [section |-> section, op |-> op, obj |-> obj, try |-> try, catch |-> catch]

SchemasSection(cat) ==
  [i \in DOMAIN Schemas |->
     Stmt("schemas", "CREATE SCHEMA IF NOT EXISTS", Schemas[i], NoTry, "none")]

ExtensionsSection(cat) ==
  <<Stmt("extensions", "CREATE EXTENSION IF NOT EXISTS", "e1", <<"ext", 1>>, "log")>>

EnumsSection(cat) ==
  <<Stmt("enums", "DO CREATE TYPE EXCEPTION WHEN duplicate_object", "t1", <<"enum", 1>>, "log")>>

SequencesSection(cat) ==
  <<Stmt("sequences", "CREATE SEQUENCE IF NOT EXISTS", "s1", <<"seq", 1>>, "log"),
    Stmt("sequences", "SELECT setval", "s1", <<"seq", 1>>, "log")>>

TablesSection(cat) ==
  <<Stmt("tables", "CREATE TABLE IF NOT EXISTS", "t1", <<"table", 1>>, "log")>>

\* otherConstraints = constraints.filter(c => c.type !== 'f')
ConstraintsSection(cat) ==
  LET other == SelectSeq(cat.constraints, LAMBDA t : t # "f")
  IN [i \in DOMAIN other |->
        Stmt("constraints", "ADD CONSTRAINT", other[i], <<"con", other[i]>>, "quiet")]

\* definition.replace(/^CREATE INDEX/, 'CREATE INDEX IF NOT EXISTS'): the
\* definition of a unique index starts with CREATE UNIQUE INDEX and stays as it is.
IndexesSection(cat) ==
  [i \in DOMAIN cat.indexes |->
     Stmt("indexes",
          IF cat.indexes[i] = "plain" THEN "CREATE INDEX IF NOT EXISTS"
          ELSE "CREATE UNIQUE INDEX",
          cat.indexes[i], <<"idx", i>>, "quiet")]

\* fkConstraints = constraints.filter(c => c.type === 'f')
ForeignKeysSection(cat) ==
  LET fk == SelectSeq(cat.constraints, LAMBDA t : t = "f")
  IN [i \in DOMAIN fk |->
        Stmt("foreign keys", "ADD CONSTRAINT", fk[i], <<"fk", i>>, "quiet")]

RECURSIVE DropCreate(_, _, _, _, _, _)
DropCreate(names, i, section, drop, create, sameTry) ==
  IF i > Len(names) THEN <<>>
  ELSE <<Stmt(section, drop, names[i],
              <<IF sameTry THEN "both" ELSE "drop", section, i>>,
              IF sameTry THEN "log" ELSE "empty"),
         Stmt(section, create, names[i], <<"both", section, i>>, "log")>>
       \o DropCreate(names, i + 1, section, drop, create, sameTry)

ViewsSection(cat) ==
  DropCreate(cat.views, 1, "views", "DROP VIEW IF EXISTS CASCADE", "CREATE VIEW", TRUE)

\* The statements of migrateSchema with the foreign keys added ahead of the tables.
migrateSchemaForeignKeysFirst(cat) ==
  SchemasSection(cat) \o ExtensionsSection(cat) \o EnumsSection(cat)
    \o SequencesSection(cat) \o ForeignKeysSection(cat) \o TablesSection(cat)
    \o ConstraintsSection(cat) \o IndexesSection(cat) \o ViewsSection(cat)

\* The statements migrateSchema issues, in the order of its loops.
migrateSchemaStatements(cat) ==
  SchemasSection(cat) \o ExtensionsSection(cat) \o EnumsSection(cat)
    \o SequencesSection(cat) \o TablesSection(cat) \o ConstraintsSection(cat)
    \o IndexesSection(cat) \o ForeignKeysSection(cat) \o ViewsSection(cat)

\* The statements of the document exportSchemaToSQL builds, in the order in
\* which it appends them.
exportSchemaToSQL(cat) ==
  SchemasSection(cat) \o ExtensionsSection(cat) \o EnumsSection(cat)
    \o SequencesSection(cat) \o TablesSection(cat) \o ConstraintsSection(cat)
    \o IndexesSection(cat) \o ForeignKeysSection(cat) \o ViewsSection(cat)

migrateFunctionsStatements(cat) ==
  DropCreate(cat.functions, 1, "functions", "DROP FUNCTION IF EXISTS CASCADE",
             "CREATE OR REPLACE FUNCTION", FALSE)

migrateTriggersStatements(cat) ==
  DropCreate([i \in DOMAIN cat.triggers |-> cat.triggers[i].name], 1, "triggers",
             "DROP TRIGGER IF EXISTS", "CREATE TRIGGER", TRUE)

migrateRLSStatements(cat) ==
  <<Stmt("rls", "ENABLE ROW LEVEL SECURITY", "t1", <<"rls", 1>>, "log"),
    Stmt("rls", "FORCE ROW LEVEL SECURITY", "t1", <<"rls", 1>>, "log")>>
  \o DropCreate([i \in DOMAIN cat.policies |-> cat.policies[i].name], 1, "policies",
                "DROP POLICY IF EXISTS", "CREATE POLICY", TRUE)

migrateGrantsStatements(cat) ==
  [i \in 1..NRoles |-> Stmt("roles", "DO CREATE ROLE", i, <<"role", i>>, "log")]
  \o <<Stmt("grants", "GRANT", "t1", <<"grant", 1>>, "log"),
       Stmt("grants", "GRANT USAGE ON SCHEMA", "public", <<"usage", 1>>, "log"),
       Stmt("grants", "GRANT ON ALL SEQUENCES", "public", <<"seqs", 1>>, "log"),
       Stmt("grants", "GRANT ON ALL FUNCTIONS", "public", <<"fns", 1>>, "log")>>

StatementsOf(stage, cat) ==
  CASE stage = "schema"    -> migrateSchemaStatements(cat)
    [] stage = "functions" -> migrateFunctionsStatements(cat)
    [] stage = "triggers"  -> migrateTriggersStatements(cat)
    [] stage = "rls"       -> migrateRLSStatements(cat)
    [] stage = "grants"    -> migrateGrantsStatements(cat)
    [] OTHER               -> <<>>

(***************************************************************************)
(* What a statement does on the target.  A statement that fails changes    *)
(* nothing; `existed` tells that it failed only because its object is      *)
(* there already.                                                          *)
(***************************************************************************)
Done(t) == [error |-> <<>>, existed |-> FALSE, target |-> t]

Fails(message, existed, t) == [error |-> message, existed |-> existed, target |-> t]

AlreadyExists == <<"relation", "already exists">>

DoesNotExist == <<"function or relation", "does not exist">>

\* ADD CONSTRAINT ... PRIMARY KEY on a table that has its primary key.
MultiplePrimaryKeys == <<"multiple primary keys for table", "are not allowed">>

FnOf(descriptors, name) ==
  LET d == CHOOSE d \in Range(descriptors) : d.name = name IN d.fn

Execute(st, t, cat) ==
  CASE st.op = "ADD CONSTRAINT" ->
         IF st.obj \in t.constraints
         THEN Fails(IF st.obj = "p" THEN MultiplePrimaryKeys ELSE AlreadyExists, TRUE, t)
         ELSE Done([t EXCEPT !.constraints = @ \cup {st.obj}])
    [] st.op = "CREATE INDEX IF NOT EXISTS" ->
         Done([t EXCEPT !.indexes = @ \cup {st.obj}])
    [] st.op = "CREATE UNIQUE INDEX" ->
         IF st.obj \in t.indexes THEN Fails(AlreadyExists, TRUE, t)
         ELSE Done([t EXCEPT !.indexes = @ \cup {st.obj}])
    [] st.op = "DROP VIEW IF EXISTS CASCADE" ->
         Done([t EXCEPT !.views =
                 @ \ ({st.obj} \cup {w \in Range(cat.views) : st.obj \in cat.reads[w]})])
    [] st.op = "CREATE VIEW" ->
         IF st.obj \in t.views THEN Fails(AlreadyExists, TRUE, t)
         ELSE IF ~(cat.reads[st.obj] \subseteq t.views) THEN Fails(DoesNotExist, FALSE, t)
         ELSE Done([t EXCEPT !.views = @ \cup {st.obj}])
    [] st.op = "DROP FUNCTION IF EXISTS CASCADE" ->
         Done([t EXCEPT
                 !.functions = @ \ {st.obj},
                 !.triggers = @ \ {g.name : g \in {g \in Range(cat.triggers) : g.fn = st.obj}},
                 !.policies = @ \ {p.name : p \in {p \in Range(cat.policies) : p.fn = st.obj}}])
    [] st.op = "CREATE OR REPLACE FUNCTION" ->
         Done([t EXCEPT !.functions = @ \cup {st.obj}])
    [] st.op = "DROP TRIGGER IF EXISTS" ->
         Done([t EXCEPT !.triggers = @ \ {st.obj}])
    [] st.op = "CREATE TRIGGER" ->
         IF st.obj \in t.triggers THEN Fails(AlreadyExists, TRUE, t)
         ELSE IF FnOf(cat.triggers, st.obj) \notin t.functions
         THEN Fails(DoesNotExist, FALSE, t)
         ELSE Done([t EXCEPT !.triggers = @ \cup {st.obj}])
    [] st.op = "DROP POLICY IF EXISTS" ->
         Done([t EXCEPT !.policies = @ \ {st.obj}])
    [] st.op = "CREATE POLICY" ->
         IF st.obj \in t.policies THEN Fails(AlreadyExists, TRUE, t)
         ELSE IF FnOf(cat.policies, st.obj) \notin t.functions \cup {None}
         THEN Fails(DoesNotExist, FALSE, t)
         ELSE Done([t EXCEPT !.policies = @ \cup {st.obj}])
    [] OTHER -> Done(t)

\* What the catch around the statement does with the error.
ReportOf(st, error) ==
  IF st.catch = "log" THEN "failure"
  ELSE IF st.catch = "quiet"
  THEN IF MessageIncludes(error, "already exists") THEN "ignored" ELSE "failure"
  ELSE "ignored"

RerunInit ==
  /\ rCatalog \in Catalogs
  /\ rStage \in RerunStages
  /\ rTarget = FullyMigrated(rCatalog)
  /\ rIp = 1
  /\ rLog = <<>>
  /\ rDoc = <<>>
  /\ rPc = "run"

RerunIdle ==
  /\ rCatalog = <<>>
  /\ rStage = None
  /\ rTarget = <<>>
  /\ rIp = 0
  /\ rLog = <<>>
  /\ rDoc = <<>>
  /\ rPc = "idle"

\* await targetClient.query(...) succeeds.
RerunOk ==
  /\ rPc = "run" /\ rStage # "export"
  /\ rIp <= Len(StatementsOf(rStage, rCatalog))
  /\ LET st == StatementsOf(rStage, rCatalog)[rIp]
         res == Execute(st, rTarget, rCatalog)
     IN /\ res.error = <<>>
        /\ rTarget' = res.target
        /\ rLog' = Append(rLog, [st |-> st, report |-> "ok", existed |-> FALSE])
  /\ rIp' = rIp + 1
  /\ UNCHANGED <<rCatalog, rStage, rDoc, rPc>>
  /\ UNCHANGED <<sortVars, parseVars, mainVars, dataVars, applyVars,
                 extractVars, regionVars, storageVars, documentVars, tripVars,
                 insertVars, exportVars, sequenceVars>>

\* await targetClient.query(...) rejects; the catch of the try reports or
\* ignores the error and the stage goes on after the try.
RerunCaught ==
  /\ rPc = "run" /\ rStage # "export"
  /\ rIp <= Len(StatementsOf(rStage, rCatalog))
  /\ LET plan == StatementsOf(rStage, rCatalog)
         st == plan[rIp]
         res == Execute(st, rTarget, rCatalog)
     IN /\ res.error # <<>>
        /\ st.catch # "none"
        /\ rLog' = Append(rLog, [st |-> st, report |-> ReportOf(st, res.error),
                                 existed |-> res.existed])
        /\ rIp' = AfterTry(plan, rIp)
  /\ UNCHANGED <<rCatalog, rStage, rTarget, rDoc, rPc>>
  /\ UNCHANGED <<sortVars, parseVars, mainVars, dataVars, applyVars,
                 extractVars, regionVars, storageVars, documentVars, tripVars,
                 insertVars, exportVars, sequenceVars>>

\* The last loop of the stage ends; finally releases the client.
RerunDone ==
  /\ rPc = "run" /\ rStage # "export"
  /\ rIp > Len(StatementsOf(rStage, rCatalog))
  /\ rPc' = "done"
  /\ UNCHANGED <<rCatalog, rStage, rTarget, rIp, rLog, rDoc>>
  /\ UNCHANGED <<sortVars, parseVars, mainVars, dataVars, applyVars,
                 extractVars, regionVars, storageVars, documentVars, tripVars,
                 insertVars, exportVars, sequenceVars>>

\* exportSchemaToSQL returns the document.
RerunExport ==
  /\ rPc = "run" /\ rStage = "export"
  /\ rDoc' = exportSchemaToSQL(rCatalog)
  /\ rPc' = "done"
  /\ UNCHANGED <<rCatalog, rStage, rTarget, rIp, rLog>>
  /\ UNCHANGED <<sortVars, parseVars, mainVars, dataVars, applyVars,
                 extractVars, regionVars, storageVars, documentVars, tripVars,
                 insertVars, exportVars, sequenceVars>>

RerunNext == RerunOk \/ RerunCaught \/ RerunDone \/ RerunExport

(***************************************************************************)
(* The extraction functions: the descriptors they build from the rows of   *)
(* the source catalogs.  A string is a sequence of characters.             *)
(***************************************************************************)
\* config.excludeTables
excludeTables == <<"schema_migrations", "supabase_migrations">>

\* The base tables the source may hold in schema public, in name order.
SourceTables == <<"schema_migrations", "users">>

\* The values an aggregated element (an enum label, a privilege, a role) takes.
Elements == {<<"a">>, <<"b">>, <<"a", ",", "b">>}

\* The text form in which PostgreSQL writes one element of an array: quoted
\* when it is empty or holds a delimiter, a quote, a brace or a blank.
ElementOut(e) ==
  IF e = <<>> \/ \E i \in DOMAIN e : e[i] \in {",", "\"", "{", "}", " "}
  THEN <<"\"">> \o e \o <<"\"">>
  ELSE e

\* The text form of an array: {a1,...,an}.
RECURSIVE JoinElements(_, _)
JoinElements(list, i) ==
  IF i > Len(list) THEN <<>>
  ELSE (IF i > 1 THEN <<",">> ELSE <<>>) \o ElementOut(list[i]) \o JoinElements(list, i + 1)

ArrayOut(list) == <<"{">> \o JoinElements(list, 1) \o <<"}">>

\* row.x as the driver delivers it: the array itself, or its text form.
Delivered(list, wire) ==
  IF wire = "array" THEN [isArray |-> TRUE, value |-> list]
  ELSE [isArray |-> FALSE, value |-> ArrayOut(list)]

\* s.replace(/^\{|\}$/g, '')
StripBraces(s) ==
  LET a == IF s # <<>> /\ s[1] = "{" THEN SubSeq(s, 2, Len(s)) ELSE s
  IN IF a # <<>> /\ a[Len(a)] = "}" THEN SubSeq(a, 1, Len(a) - 1) ELSE a

\* s.split(','): the pieces between the commas; one empty piece for ''.
RECURSIVE SplitComma(_, _, _)
SplitComma(s, i, piece) ==
  IF i > Len(s) THEN <<piece>>
  ELSE IF s[i] = "," THEN <<piece>> \o SplitComma(s, i + 1, <<>>)
  ELSE SplitComma(s, i + 1, Append(piece, s[i]))

\* Array.isArray(row.x) ? row.x : row.x.replace(/^\{|\}$/g, '').split(',')
ParseAggregate(field) ==
  IF field.isArray THEN field.value
  ELSE SplitComma(StripBraces(field.value), 1, <<>>)

\* getRLSPolicies: ... .split(',').filter((r: string) => r)
ParseRoles(field) ==
  IF field.isArray THEN field.value
  ELSE SelectSeq(SplitComma(StripBraces(field.value), 1, <<>>), LAMBDA r : r # <<>>)

\* The rows of a catalog query over the tables of the configured schemas.
RowsOf(tbls) == SelectSeq(SourceTables, LAMBDA t : t \in tbls)

\* WHERE ... AND t.table_name NOT IN (excludeList), when the list is not empty
NotExcluded(rows) ==
  IF Len(excludeTables) > 0
  THEN SelectSeq(rows, LAMBDA t : t \notin Range(excludeTables))
  ELSE rows

Descriptor(kind, table, list) == [kind |-> kind, table |-> table, list |-> list]

Describe(kind, rows, list) == [i \in DOMAIN rows |-> Descriptor(kind, rows[i], list)]

ExtractInit ==
  /\ xTables \in SUBSET Range(SourceTables)
  /\ xList \in SeqsUpTo(Elements, MaxElems)
  /\ xWire \in {"array", "string"}
  /\ xCall = None
  /\ xResult = <<>>

ExtractIdle ==
  /\ xTables = {}
  /\ xList = <<>>
  /\ xWire = None
  /\ xCall = "idle"
  /\ xResult = <<>>

Extracted(call, descriptors) ==
  /\ xCall = None
  /\ xCall' = call
  /\ xResult' = descriptors
  /\ UNCHANGED <<xTables, xList, xWire>>
  /\ UNCHANGED <<sortVars, parseVars, mainVars, dataVars, applyVars, rerunVars,
                 regionVars, storageVars, documentVars, tripVars, insertVars,
                 exportVars, sequenceVars>>

getEnums ==
  Extracted("getEnums",
          <<Descriptor("enum", None, ParseAggregate(Delivered(xList, xWire)))>>)

getTables == Extracted("getTables", Describe("table", NotExcluded(RowsOf(xTables)), <<>>))

getIndexes == Extracted("getIndexes", Describe("index", RowsOf(xTables), <<>>))

getConstraints == Extracted("getConstraints", Describe("constraint", RowsOf(xTables), <<>>))

getTriggers == Extracted("getTriggers", Describe("trigger", RowsOf(xTables), <<>>))

getTableRLSStatus == Extracted("getTableRLSStatus", Describe("rls", RowsOf(xTables), <<>>))

getRLSPolicies ==
  Extracted("getRLSPolicies",
          Describe("policy", RowsOf(xTables), ParseRoles(Delivered(xList, xWire))))

getGrants ==
  Extracted("getGrants",
          Describe("grant", RowsOf(xTables), ParseAggregate(Delivered(xList, xWire))))

ExtractNext ==
  \/ getEnums \/ getTables \/ getIndexes \/ getConstraints \/ getTriggers
  \/ getTableRLSStatus \/ getRLSPolicies \/ getGrants

(***************************************************************************)
(* config: buildSupabaseDbUrl and the detection of the pooler region       *)
(***************************************************************************)
POOLER_REGIONS ==
  <<"aws-1-ap-northeast-2", "aws-1-us-east-1", "aws-1-us-west-1", "aws-1-eu-west-1",
    "aws-1-eu-central-1", "aws-1-ap-southeast-1", "aws-1-ap-northeast-1",
    "aws-0-ap-northeast-2", "aws-0-us-east-1", "aws-0-us-west-1", "aws-0-eu-west-1",
    "aws-0-eu-central-1", "aws-0-ap-southeast-1", "aws-0-ap-northeast-1">>

\* The arguments of buildSupabaseDbUrl in the model; None is undefined.
SupabaseUrls == {None, "https://refa.supabase.co", "http://localhost:8000"}

ServiceKeys == {None, "header.{ref:refb}.signature", "header.{}.signature", "not-a-jwt"}

\* supabaseUrl.match(/https?:\/\/([^.]+)\.supabase\.co/)
extractProjectRef(supabaseUrl) ==
  IF supabaseUrl = "https://refa.supabase.co" THEN "refa" ELSE None

\* The ref of the payload of a three-part key, or null.
extractRefFromJwt(serviceKey) ==
  IF serviceKey = "header.{ref:refb}.signature" THEN "refb" ELSE None

\* refFromUrl || refFromJwt
ProjectRef(in) ==
  IF extractProjectRef(in.supabaseUrl) # None THEN extractProjectRef(in.supabaseUrl)
  ELSE extractRefFromJwt(in.serviceKey)

\* postgresql://postgres.<ref>:<password>@<region>.pooler.supabase.com:6543/postgres
PoolerUrl(ref, region) == <<"pooler", ref, region>>

\* postgresql://postgres:<password>@db.<ref>.supabase.co:5432/postgres
DirectUrl(ref) == <<"direct", ref>>

\* A loop that gives up after the first candidate.
RegionsExhaustedAfterFirst(i) == i > 1

\* for (const region of POOLER_REGIONS) has no candidate left
RegionsExhausted(i) == i > Len(POOLER_REGIONS)

RegionInit ==
  /\ bInput \in [supabaseUrl : SupabaseUrls, serviceKey : ServiceKeys,
                 dbPassword : {None, "secret"}, explicitDbUrl : {None, "postgresql://db"}]
  /\ bI = 0
  /\ bAttempts = <<>>
  /\ bResult = <<>>
  /\ bPc = "start"

RegionIdle ==
  /\ bInput = <<>>
  /\ bI = 0
  /\ bAttempts = <<>>
  /\ bResult = <<>>
  /\ bPc = "idle"

\* if (explicitDbUrl) return explicitDbUrl
BuildExplicit ==
  /\ bPc = "start"
  /\ bInput.explicitDbUrl # None
  /\ bResult' = <<"explicit", bInput.explicitDbUrl>>
  /\ bPc' = "done"
  /\ UNCHANGED <<bInput, bI, bAttempts>>
  /\ UNCHANGED <<sortVars, parseVars, mainVars, dataVars, applyVars, rerunVars,
                 extractVars, storageVars, documentVars, tripVars, insertVars,
                 exportVars, sequenceVars>>

\* if (!dbPassword) return null; if (!projectRef) return null
BuildNull ==
  /\ bPc = "start"
  /\ bInput.explicitDbUrl = None
  /\ bInput.dbPassword = None \/ ProjectRef(bInput) = None
  /\ bResult' = <<"null">>
  /\ bPc' = "done"
  /\ UNCHANGED <<bInput, bI, bAttempts>>
  /\ UNCHANGED <<sortVars, parseVars, mainVars, dataVars, applyVars, rerunVars,
                 extractVars, storageVars, documentVars, tripVars, insertVars,
                 exportVars, sequenceVars>>

\* The function reaches the loop over POOLER_REGIONS.
BuildDetect ==
  /\ bPc = "start"
  /\ bInput.explicitDbUrl = None
  /\ bInput.dbPassword # None /\ ProjectRef(bInput) # None
  /\ bI' = 1
  /\ bPc' = "detect"
  /\ UNCHANGED <<bInput, bAttempts, bResult>>
  /\ UNCHANGED <<sortVars, parseVars, mainVars, dataVars, applyVars, rerunVars,
                 extractVars, storageVars, documentVars, tripVars, insertVars,
                 exportVars, sequenceVars>>

\* await testPool.connect() resolves: release, await testPool.end(), return testUrl
RegionConnects ==
  /\ bPc = "detect" /\ ~RegionsExhausted(bI)
  /\ bAttempts' = Append(bAttempts, [region |-> POOLER_REGIONS[bI], outcome |-> "connected",
                                     ended |-> TRUE])
  /\ bResult' = PoolerUrl(ProjectRef(bInput), POOLER_REGIONS[bI])
  /\ bPc' = "done"
  /\ UNCHANGED <<bInput, bI>>
  /\ UNCHANGED <<sortVars, parseVars, mainVars, dataVars, applyVars, rerunVars,
                 extractVars, storageVars, documentVars, tripVars, insertVars,
                 exportVars, sequenceVars>>

\* await testPool.connect() throws: control leaves the try before
\* testPool.end(); the catch logs an authentication error, ends no pool, and
\* the loop goes on to the next region.
RegionFails ==
  /\ bPc = "detect" /\ ~RegionsExhausted(bI)
  /\ bAttempts' = Append(bAttempts, [region |-> POOLER_REGIONS[bI], outcome |-> "failed",
                                     ended |-> FALSE])
  /\ bI' = bI + 1
  /\ UNCHANGED <<bInput, bResult, bPc>>
  /\ UNCHANGED <<sortVars, parseVars, mainVars, dataVars, applyVars, rerunVars,
                 extractVars, storageVars, documentVars, tripVars, insertVars,
                 exportVars, sequenceVars>>

\* After the loop: the direct connection.
BuildFallback ==
  /\ bPc = "detect" /\ RegionsExhausted(bI)
  /\ bResult' = DirectUrl(ProjectRef(bInput))
  /\ bPc' = "done"
  /\ UNCHANGED <<bInput, bI, bAttempts>>
  /\ UNCHANGED <<sortVars, parseVars, mainVars, dataVars, applyVars, rerunVars,
                 extractVars, storageVars, documentVars, tripVars, insertVars,
                 exportVars, sequenceVars>>

RegionNext ==
  \/ BuildExplicit \/ BuildNull \/ BuildDetect
  \/ RegionConnects \/ RegionFails \/ BuildFallback

(***************************************************************************)
(* migrate-storage: migrateStorage                                         *)
(***************************************************************************)
\* The most buckets of the source, and the most files of a bucket, in the model.
MaxBuckets == 2

MaxFiles == 2

\* process.env.X of a variable that is not set, set to '' or set to a value.
EnvValues == {None, "", "set"}

\* !v for a string or undefined
Falsy(v) == v \in {None, ""}

\* A createStorageClients that tests the source credentials only.
createStorageClientsSourceOnly(cfg) ==
  IF Falsy(cfg.sourceUrl) \/ Falsy(cfg.sourceKey) THEN "null" ELSE "clients"

\* createStorageClients: null when a URL or a key is missing.
createStorageClients(cfg) ==
  IF Falsy(cfg.sourceUrl) \/ Falsy(cfg.sourceKey) THEN "null"
  ELSE IF Falsy(cfg.targetUrl) \/ Falsy(cfg.targetKey) THEN "null"
  ELSE "clients"

ZeroStats ==
  [bucketsCreated |-> 0, bucketsFailed |-> 0, filesUploaded |-> 0, filesFailed |-> 0,
   totalBytes |-> 0]

StorageInit ==
  /\ gConfig \in [sourceUrl : EnvValues, sourceKey : EnvValues,
                  targetUrl : EnvValues, targetKey : EnvValues]
  /\ gBuckets \in SeqsUpTo(0..MaxFiles, MaxBuckets)
  /\ gBi = 0
  /\ gFiles = 0
  /\ gFi = 0
  /\ gStats = ZeroStats
  /\ gCalls = 0
  /\ gPc = "start"

StorageIdle ==
  /\ gConfig = <<>>
  /\ gBuckets = <<>>
  /\ gBi = 0
  /\ gFiles = 0
  /\ gFi = 0
  /\ gStats = ZeroStats
  /\ gCalls = 0
  /\ gPc = "idle"

\* const clients = createStorageClients(); if (!clients) return stats
StorageSkipped ==
  /\ gPc = "start"
  /\ createStorageClients(gConfig) = "null"
  /\ gPc' = "done"
  /\ UNCHANGED <<gConfig, gBuckets, gBi, gFiles, gFi, gStats, gCalls>>
  /\ UNCHANGED <<sortVars, parseVars, mainVars, dataVars, applyVars, rerunVars,
                 extractVars, regionVars, documentVars, tripVars, insertVars,
                 exportVars, sequenceVars>>

\* listBuckets(source): the buckets, or [] on an error; no bucket: return stats
StorageListBuckets ==
  /\ gPc = "start"
  /\ createStorageClients(gConfig) = "clients"
  /\ gCalls' = gCalls + 1
  /\ \E listed \in {gBuckets, <<>>} :
       IF Len(listed) = 0
       THEN gPc' = "done" /\ UNCHANGED gBi
       ELSE gPc' = "bucket" /\ gBi' = 1
  /\ UNCHANGED <<gConfig, gBuckets, gFiles, gFi, gStats>>
  /\ UNCHANGED <<sortVars, parseVars, mainVars, dataVars, applyVars, rerunVars,
                 extractVars, regionVars, documentVars, tripVars, insertVars,
                 exportVars, sequenceVars>>

\* createBucket(target, bucket), then listAllFiles(source, bucket.id) when the
\* bucket was created or exists already.
StorageCreateBucket ==
  /\ gPc = "bucket" /\ gBi <= Len(gBuckets)
  /\ \/ /\ gStats' = [gStats EXCEPT !.bucketsCreated = @ + 1]
        /\ gCalls' = gCalls + 2
        /\ \E n \in 0..gBuckets[gBi] : gFiles' = n
        /\ gFi' = 1
        /\ gPc' = "file"
        /\ UNCHANGED gBi
     \/ /\ gStats' = [gStats EXCEPT !.bucketsFailed = @ + 1]
        /\ gCalls' = gCalls + 1
        /\ gBi' = gBi + 1
        /\ UNCHANGED <<gFiles, gFi, gPc>>
  /\ UNCHANGED <<gConfig, gBuckets>>
  /\ UNCHANGED <<sortVars, parseVars, mainVars, dataVars, applyVars, rerunVars,
                 extractVars, regionVars, documentVars, tripVars, insertVars,
                 exportVars, sequenceVars>>

\* downloadFile, and uploadFile when the download gave the file.
StorageFile ==
  /\ gPc = "file" /\ gFi <= gFiles
  /\ \/ /\ gStats' = [gStats EXCEPT !.filesFailed = @ + 1]
        /\ gCalls' = gCalls + 1
     \/ /\ gStats' = [gStats EXCEPT !.filesUploaded = @ + 1, !.totalBytes = @ + 1]
        /\ gCalls' = gCalls + 2
     \/ /\ gStats' = [gStats EXCEPT !.filesFailed = @ + 1]
        /\ gCalls' = gCalls + 2
  /\ gFi' = gFi + 1
  /\ UNCHANGED <<gConfig, gBuckets, gBi, gFiles, gPc>>
  /\ UNCHANGED <<sortVars, parseVars, mainVars, dataVars, applyVars, rerunVars,
                 extractVars, regionVars, documentVars, tripVars, insertVars,
                 exportVars, sequenceVars>>

\* The files of the bucket are done: the next bucket.
StorageNextBucket ==
  /\ gPc = "file" /\ gFi > gFiles
  /\ gBi' = gBi + 1
  /\ gPc' = "bucket"
  /\ UNCHANGED <<gConfig, gBuckets, gFiles, gFi, gStats, gCalls>>
  /\ UNCHANGED <<sortVars, parseVars, mainVars, dataVars, applyVars, rerunVars,
                 extractVars, regionVars, documentVars, tripVars, insertVars,
                 exportVars, sequenceVars>>

\* The loop over the buckets has ended: the summary, return stats.
StorageDone ==
  /\ gPc = "bucket" /\ gBi > Len(gBuckets)
  /\ gPc' = "done"
  /\ UNCHANGED <<gConfig, gBuckets, gBi, gFiles, gFi, gStats, gCalls>>
  /\ UNCHANGED <<sortVars, parseVars, mainVars, dataVars, applyVars, rerunVars,
                 extractVars, regionVars, documentVars, tripVars, insertVars,
                 exportVars, sequenceVars>>

\* A call of the storage API throws inside the try: catch logs, return stats.
StorageThrows ==
  /\ \/ gPc = "start" /\ createStorageClients(gConfig) = "clients"
     \/ gPc = "bucket" /\ gBi <= Len(gBuckets)
     \/ gPc = "file" /\ gFi <= gFiles
  /\ gCalls' = gCalls + 1
  /\ gPc' = "done"
  /\ UNCHANGED <<gConfig, gBuckets, gBi, gFiles, gFi, gStats>>
  /\ UNCHANGED <<sortVars, parseVars, mainVars, dataVars, applyVars, rerunVars,
                 extractVars, regionVars, documentVars, tripVars, insertVars,
                 exportVars, sequenceVars>>

StorageNext ==
  \/ StorageSkipped \/ StorageListBuckets \/ StorageCreateBucket \/ StorageFile
  \/ StorageNextBucket \/ StorageDone \/ StorageThrows


(***************************************************************************)
(* The exported documents: exportDataToSQL and exportFunctionsToSQL render *)
(* statements into a script, which parseSQLStatements splits again.  A     *)
(* text is a sequence of one-character strings; a piece of text that holds *)
(* no space, newline, quote, '-', '$' or ';' is written as one element.    *)
(***************************************************************************)
\* The most rows of the exported table in the model.
MaxDocRows == 2

\* The most exported functions in the model.
MaxFns == 2

\* The values of the one column of the exported table: NULL, a number, and
\* texts: plain, ending in ';', of two lines the first of which ends in ';',
\* holding a dollar-quote token, holding a quote.
RowValues ==
  { [kind |-> "null",   text |-> <<>>],
    [kind |-> "number", text |-> <<"1">>],
    [kind |-> "text",   text |-> <<"a">>],
    [kind |-> "text",   text |-> <<"a", ";">>],
    [kind |-> "text",   text |-> <<"a", ";", "\n", "b">>],
    [kind |-> "text",   text |-> <<"$", "$">>],
    [kind |-> "text",   text |-> <<"'">>] }

\* What pg_get_functiondef returns (it ends with a newline): functions whose
\* body is dollar-quoted, the tag written $a$, with a line ending in ';', with
\* another dollar-quote token, with both; and a function with an SQL-standard
\* body, which is not quoted.
FunctionDefs ==
  { <<"CREATE FUNCTION f()", "\n", "AS", " ", "$", "a", "$", "\n",
      "x", ";", "\n", "$", "a", "$", "\n">>,
    <<"CREATE FUNCTION f()", "\n", "AS", " ", "$", "a", "$", "\n",
      "'", "$", "$", "'", "\n", "$", "a", "$", "\n">>,
    <<"CREATE FUNCTION f()", "\n", "AS", " ", "$", "a", "$", "\n",
      "$", "b", "$", "x", ";", "\n", "y", ";", "\n", "$", "a", "$", "\n">>,
    <<"CREATE FUNCTION f()", "\n", "BEGIN ATOMIC", "\n", " ", "SELECT 1", ";", "\n",
      "END", "\n">> }

\* What pg_get_triggerdef returns.
TriggerDefs ==
  { <<"CREATE TRIGGER g BEFORE INSERT ON t EXECUTE FUNCTION f()">> }

\* .replace(/'/g, "''")
RECURSIVE EscapeQuotes(_)
EscapeQuotes(text) ==
  IF text = <<>> THEN <<>>
  ELSE (IF Head(text) = "'" THEN <<"'", "'">> ELSE <<Head(text)>>)
         \o EscapeQuotes(Tail(text))

\* The value of a column in the VALUES list.
ValueOut(val) ==
  IF val.kind = "null" THEN <<"NULL">>
  ELSE IF val.kind = "number" THEN val.text
  ELSE <<"'">> \o EscapeQuotes(val.text) \o <<"'">>

\* INSERT INTO "public"."t" ("c") VALUES (...), without its ';'.
InsertStatement(val) ==
  <<"INSERT INTO t (c) VALUES (">> \o ValueOut(val) \o <<")">>

CommentLine(text) == <<"-", "-", " ", text>>

RECURSIVE InsertLines(_, _)
InsertLines(rows, i) ==
  IF i > Len(rows) THEN <<>>
  ELSE <<InsertStatement(rows[i]) \o <<";">>>> \o InsertLines(rows, i + 1)

\* The lines exportDataToSQL pushes for the table: none when it has no rows.
TableLines(rows) ==
  IF rows = <<>> THEN <<>>
  ELSE <<CommentLine("Table: t"), <<"TRUNCATE t CASCADE", ";">>>>
         \o InsertLines(rows, 1) \o << <<>> >>

\* lines.join('\n') of exportDataToSQL, for one table of one column.
exportDataToSQL(rows) ==
  JoinLines(
    <<CommentLine("===="), CommentLine("DATA EXPORT"), CommentLine("Generated: now"),
      CommentLine("===="), <<>>, CommentLine("Disable triggers for faster import"),
      <<"SET session_replication_role = replica", ";">>, <<>>>>
    \o TableLines(rows)
    \o <<CommentLine("Re-enable triggers"),
         <<"SET session_replication_role = DEFAULT", ";">>, <<>>>>, 1)

\* The statements exportDataToSQL rendered, in order.
DataStatements(rows) ==
  <<<<"SET session_replication_role = replica">>>>
  \o (IF rows = <<>> THEN <<>>
      ELSE <<<<"TRUNCATE t CASCADE">>>> \o [i \in DOMAIN rows |-> InsertStatement(rows[i])])
  \o <<<<"SET session_replication_role = DEFAULT">>>>

DropFunctionStatement == <<"DROP FUNCTION IF EXISTS f() CASCADE">>

DropTriggerStatement == <<"DROP TRIGGER IF EXISTS g ON t">>

\* for (const func of functions) { sql += ... }
RECURSIVE FunctionsText(_, _)
FunctionsText(functions, i) ==
  IF i > Len(functions) THEN <<>>
  ELSE CommentLine("Function: f") \o <<"\n">>
       \o DropFunctionStatement \o <<";", "\n">>
       \o functions[i] \o <<";", "\n", "\n">>
       \o FunctionsText(functions, i + 1)

\* for (const trigger of triggers) { sql += ... }
RECURSIVE TriggersText(_, _)
TriggersText(triggers, i) ==
  IF i > Len(triggers) THEN <<>>
  ELSE CommentLine("Trigger: g") \o <<"\n">>
       \o DropTriggerStatement \o <<";", "\n">>
       \o triggers[i] \o <<";", "\n", "\n">>
       \o TriggersText(triggers, i + 1)

exportFunctionsToSQL(functions, triggers) ==
  CommentLine("Functions and Triggers Migration Script") \o <<"\n">>
  \o CommentLine("Generated by supabase-migration") \o <<"\n", "\n">>
  \o CommentLine("========== FUNCTIONS ==========") \o <<"\n", "\n">>
  \o FunctionsText(functions, 1)
  \o <<"\n">> \o CommentLine("========== TRIGGERS ==========") \o <<"\n", "\n">>
  \o TriggersText(triggers, 1)

\* The statements exportFunctionsToSQL rendered, in order.
RECURSIVE DropThenCreate(_, _, _)
DropThenCreate(drop, definitions, i) ==
  IF i > Len(definitions) THEN <<>>
  ELSE <<drop, definitions[i]>> \o DropThenCreate(drop, definitions, i + 1)

FunctionsStatements(functions, triggers) ==
  DropThenCreate(DropFunctionStatement, functions, 1)
  \o DropThenCreate(DropTriggerStatement, triggers, 1)

DocumentInit ==
  /\ \/ /\ xpRows \in SeqsUpTo(RowValues, MaxDocRows)
        /\ xpFunctions = <<>>
        /\ xpTriggers = <<>>
     \/ /\ xpRows = <<>>
        /\ xpFunctions \in SeqsUpTo(FunctionDefs, MaxFns)
        /\ xpTriggers \in SeqsUpTo(TriggerDefs, 1)
  /\ rendered = <<>>
  /\ xpPc = "start"

DocumentIdle ==
  /\ xpRows = <<>>
  /\ xpFunctions = <<>>
  /\ xpTriggers = <<>>
  /\ rendered = <<>>
  /\ xpPc = "idle"

\* The data of the source is exported and the document handed to
\* parseSQLStatements.
ExportData ==
  /\ xpPc = "start"
  /\ sql' = exportDataToSQL(xpRows)
  /\ rendered' = DataStatements(xpRows)
  /\ xpPc' = "data"
  /\ lineNo' = 1
  /\ parsePc' = "scan"
  /\ UNCHANGED <<current, dollarQuoteTag, statements>>
  /\ UNCHANGED <<xpRows, xpFunctions, xpTriggers>>
  /\ UNCHANGED <<sortVars, mainVars, dataVars, applyVars, rerunVars,
                 extractVars, regionVars, storageVars, tripVars, insertVars,
                 exportVars, sequenceVars>>

\* The functions and triggers of the source are exported and the document
\* handed to parseSQLStatements.
ExportFunctions ==
  /\ xpPc = "start"
  /\ sql' = exportFunctionsToSQL(xpFunctions, xpTriggers)
  /\ rendered' = FunctionsStatements(xpFunctions, xpTriggers)
  /\ xpPc' = "functions"
  /\ lineNo' = 1
  /\ parsePc' = "scan"
  /\ UNCHANGED <<current, dollarQuoteTag, statements>>
  /\ UNCHANGED <<xpRows, xpFunctions, xpTriggers>>
  /\ UNCHANGED <<sortVars, mainVars, dataVars, applyVars, rerunVars,
                 extractVars, regionVars, storageVars, tripVars, insertVars,
                 exportVars, sequenceVars>>

DocumentNext ==
  \/ ExportData
  \/ ExportFunctions
  \/ ParseLine
  \/ ParseFinish


(***************************************************************************)
(* Export, then apply: exportSchemaToSQL builds the document of a source,  *)
(* and applySQL applies its statements, one by one, to an empty target.    *)
(***************************************************************************)
\* The primary key of a table on config.excludeTables: getConstraints
\* returns it, getTables leaves its table out.
ExcludedKey == "xp"

\* The sources: the catalogs, with or without an excluded table.
TripCatalogs ==
  Catalogs \cup {[cat EXCEPT !.constraints = <<ExcludedKey>> \o @] : cat \in Catalogs}

EmptyTarget ==
  [ tables |-> {}, constraints |-> {}, indexes |-> {}, views |-> {},
    functions |-> {}, triggers |-> {}, policies |-> {} ]

\* What a statement of the document does on the target: a table is created;
\* a constraint of a table the target does not hold is refused.
ExecuteOnTarget(st, t, cat) ==
  IF st.op = "CREATE TABLE IF NOT EXISTS"
  THEN Done([t EXCEPT !.tables = @ \cup {st.obj}])
  ELSE IF st.op = "ADD CONSTRAINT" /\ (st.obj = ExcludedKey \/ "t1" \notin t.tables)
  THEN Fails(DoesNotExist, FALSE, t)
  ELSE Execute(st, t, cat)

TripInit ==
  /\ tpCatalog \in TripCatalogs
  /\ tpDoc = <<>>
  /\ tpI = 0
  /\ tpTarget = EmptyTarget
  /\ tpCount = [success |-> 0, failed |-> 0]
  /\ tpPc = "export"

TripIdle ==
  /\ tpCatalog = <<>>
  /\ tpDoc = <<>>
  /\ tpI = 0
  /\ tpTarget = <<>>
  /\ tpCount = <<>>
  /\ tpPc = "idle"

\* exportSchemaToSQL writes the document; applySQL reads it and
\* parseSQLStatements returns its statements.
TripExport ==
  /\ tpPc = "export"
  /\ tpDoc' = exportSchemaToSQL(tpCatalog)
  /\ tpI' = 1
  /\ tpPc' = "apply"
  /\ UNCHANGED <<tpCatalog, tpTarget, tpCount>>
  /\ UNCHANGED <<sortVars, parseVars, mainVars, dataVars, applyVars, rerunVars,
                 extractVars, regionVars, storageVars, documentVars, insertVars,
                 exportVars, sequenceVars>>

\* await targetClient.query(stmt) succeeds: success++.
TripApplyOk ==
  /\ tpPc = "apply" /\ tpI <= Len(tpDoc)
  /\ LET res == ExecuteOnTarget(tpDoc[tpI], tpTarget, tpCatalog)
     IN /\ res.error = <<>>
        /\ tpTarget' = res.target
  /\ tpCount' = [tpCount EXCEPT !.success = @ + 1]
  /\ tpI' = tpI + 1
  /\ UNCHANGED <<tpCatalog, tpDoc, tpPc>>
  /\ UNCHANGED <<sortVars, parseVars, mainVars, dataVars, applyVars, rerunVars,
                 extractVars, regionVars, storageVars, documentVars, insertVars,
                 exportVars, sequenceVars>>

\* await targetClient.query(stmt) rejects: the catch counts an 'already
\* exists' or 'duplicate' error as a success, any other as a failure, and the
\* loop goes on with the next statement.
TripApplyError ==
  /\ tpPc = "apply" /\ tpI <= Len(tpDoc)
  /\ LET res == ExecuteOnTarget(tpDoc[tpI], tpTarget, tpCatalog)
     IN /\ res.error # <<>>
        /\ tpCount' = IF IsDuplicate(res.error)
                      THEN [tpCount EXCEPT !.success = @ + 1]
                      ELSE [tpCount EXCEPT !.failed = @ + 1]
  /\ tpI' = tpI + 1
  /\ UNCHANGED <<tpCatalog, tpDoc, tpTarget, tpPc>>
  /\ UNCHANGED <<sortVars, parseVars, mainVars, dataVars, applyVars, rerunVars,
                 extractVars, regionVars, storageVars, documentVars, insertVars,
                 exportVars, sequenceVars>>

\* The loop ends; finally releases the client.
TripDone ==
  /\ tpPc = "apply" /\ tpI > Len(tpDoc)
  /\ tpPc' = "done"
  /\ UNCHANGED <<tpCatalog, tpDoc, tpI, tpTarget, tpCount>>
  /\ UNCHANGED <<sortVars, parseVars, mainVars, dataVars, applyVars, rerunVars,
                 extractVars, regionVars, storageVars, documentVars, insertVars,
                 exportVars, sequenceVars>>

TripNext == TripExport \/ TripApplyOk \/ TripApplyError \/ TripDone


(***************************************************************************)
(* The INSERT statement migrateTableData builds for one fetched page.  A   *)
(* placeholder $n is written as the number n.                              *)
(***************************************************************************)
\* The most columns of the table in the model.
MaxCols == 2

\* The most rows of a page in the model.
MaxPageRows == 2

ColumnNames == {"a", "b", "c"}

CellValues == {1, 2}

\* table.columns: the column names, by ordinal position; no name twice.
ColumnLists ==
  {cs \in SeqsUpTo(ColumnNames, MaxCols) :
     \A i \in DOMAIN cs : \A j \in DOMAIN cs : cs[i] = cs[j] => i = j}

\* The placeholder of every cell is numbered by its row alone.
paramIdxOfRow(rowIdx, colIdx, ncols) == rowIdx + colIdx + 1

\* const paramIdx = rowIdx * table.columns.length + colIdx + 1
paramIdx(rowIdx, colIdx, ncols) == rowIdx * ncols + colIdx + 1

\* The inner for loop: rowValues.push(`$${paramIdx}`) per column.
RowPlaceholders(rowIdx, columns) ==
  [k \in DOMAIN columns |-> paramIdx(rowIdx, k - 1, Len(columns))]

\* The inner for loop: values.push(row[table.columns[colIdx]]) per column.
RowValuesOf(row, columns) == [k \in DOMAIN columns |-> row[columns[k]]]

\* The outer for loop over sourceData.rows: values grows by the values of
\* each row in turn.
RECURSIVE PushValues(_, _, _)
PushValues(rows, columns, rowIdx) ==
  IF rowIdx >= Len(rows) THEN <<>>
  ELSE RowValuesOf(rows[rowIdx + 1], columns) \o PushValues(rows, columns, rowIdx + 1)

\* insertQuery and values, as passed to targetClient.query.
BuildInsertQuery(rows, columns) ==
  [ columns      |-> columns,
    placeholders |-> [r \in DOMAIN rows |-> RowPlaceholders(r - 1, columns)],
    values       |-> PushValues(rows, columns, 0) ]

NoQuery == [columns |-> <<>>, placeholders |-> <<>>, values |-> <<>>]

InsertInit ==
  /\ iColumns \in ColumnLists
  /\ iRows \in (SeqsUpTo([ColumnNames -> CellValues], MaxPageRows) \ {<<>>})
  /\ iQuery = NoQuery
  /\ iPc = "fetched"

InsertIdle ==
  /\ iColumns = <<>>
  /\ iRows = <<>>
  /\ iQuery = NoQuery
  /\ iPc = "idle"

\* The page is not empty: the statement is built and executed.
BuildInsert ==
  /\ iPc = "fetched"
  /\ iQuery' = BuildInsertQuery(iRows, iColumns)
  /\ iPc' = "built"
  /\ UNCHANGED <<iColumns, iRows>>
  /\ UNCHANGED <<sortVars, parseVars, mainVars, dataVars, applyVars, rerunVars,
                 extractVars, regionVars, storageVars, documentVars, tripVars,
                 exportVars, sequenceVars>>

InsertNext == BuildInsert


(***************************************************************************)
(* Export mode: main with --export-sql, from testConnections(true) through *)
(* initPools, whose getTargetPool may call buildSupabaseDbUrl for the      *)
(* target, to exportSQL and the return.                                    *)
(***************************************************************************)
\* targetUrl.includes('localhost') || targetUrl.includes('127.0.0.1')
isLocalhost(targetUrl) == targetUrl = "http://localhost:8000"

\* The checkouts of the target pool testConnections makes.
TargetConnects(sourceOnly) ==
  Len(SelectSeq(testConnections(sourceOnly), LAMBDA step : step.kind = "connect"))

ExportModeInit ==
  /\ eEnv \in [supabaseUrl : SupabaseUrls, serviceKey : ServiceKeys,
               dbPassword : {None, "secret"}, explicitDbUrl : {None, "postgresql://db"}]
  /\ eTargetConnects = 0
  /\ eTargetPool = <<>>
  /\ ePc = "testConnections"

ExportModeIdle ==
  /\ eEnv = <<>>
  /\ eTargetConnects = 0
  /\ eTargetPool = <<>>
  /\ ePc = "idle"

\* await testConnections(options.exportSql), options.exportSql being true.
ExportTestConnections ==
  /\ ePc = "testConnections"
  /\ eTargetConnects' = eTargetConnects + TargetConnects(TRUE)
  /\ ePc' = "initPools"
  /\ UNCHANGED <<eEnv, eTargetPool>>
  /\ UNCHANGED <<sortVars, parseVars, mainVars, dataVars, applyVars, rerunVars,
                 extractVars, regionVars, storageVars, documentVars, tripVars,
                 insertVars, sequenceVars>>

\* testConnections throws (the source is not reachable): catch, process.exit(1).
ExportTestFails ==
  /\ ePc = "testConnections"
  /\ ePc' = "exit"
  /\ UNCHANGED <<eEnv, eTargetConnects, eTargetPool>>
  /\ UNCHANGED <<sortVars, parseVars, mainVars, dataVars, applyVars, rerunVars,
                 extractVars, regionVars, storageVars, documentVars, tripVars,
                 insertVars, sequenceVars>>

\* initPools, getTargetPool: a self-hosted target gets its pool from
\* createPoolSync; a pool connects only when it is first used.
GetTargetPoolLocal ==
  /\ ePc = "initPools"
  /\ isLocalhost(eEnv.supabaseUrl)
  /\ eTargetPool' = <<"createPoolSync">>
  /\ ePc' = "exportSQL"
  /\ UNCHANGED <<eEnv, eTargetConnects>>
  /\ UNCHANGED <<sortVars, parseVars, mainVars, dataVars, applyVars, rerunVars,
                 extractVars, regionVars, storageVars, documentVars, tripVars,
                 insertVars, sequenceVars>>

\* initPools, getTargetPool: for any other target buildSupabaseDbUrl is called
\* with the TARGET_ variables.
GetTargetPoolBuild ==
  /\ ePc = "initPools"
  /\ ~isLocalhost(eEnv.supabaseUrl)
  /\ bInput' = eEnv
  /\ bPc' = "start"
  /\ ePc' = "buildSupabaseDbUrl"
  /\ UNCHANGED <<bI, bAttempts, bResult>>
  /\ UNCHANGED <<eEnv, eTargetConnects, eTargetPool>>
  /\ UNCHANGED <<sortVars, parseVars, mainVars, dataVars, applyVars, rerunVars,
                 extractVars, storageVars, documentVars, tripVars, insertVars,
                 sequenceVars>>

\* buildSupabaseDbUrl has returned: the pool is made from its URL, or from
\* createPoolSync when it returned null.
GetTargetPoolBuilt ==
  /\ ePc = "buildSupabaseDbUrl"
  /\ bPc = "done"
  /\ eTargetPool' = IF bResult = <<"null">> THEN <<"createPoolSync">> ELSE bResult
  /\ ePc' = "exportSQL"
  /\ UNCHANGED <<eEnv, eTargetConnects>>
  /\ UNCHANGED <<sortVars, parseVars, mainVars, dataVars, applyVars, rerunVars,
                 extractVars, regionVars, storageVars, documentVars, tripVars,
                 insertVars, sequenceVars>>

\* await exportSQL(); return: the exporters query the source and write files.
ExportReturns ==
  /\ ePc = "exportSQL"
  /\ ePc' = "exit"
  /\ UNCHANGED <<eEnv, eTargetConnects, eTargetPool>>
  /\ UNCHANGED <<sortVars, parseVars, mainVars, dataVars, applyVars, rerunVars,
                 extractVars, regionVars, storageVars, documentVars, tripVars,
                 insertVars, sequenceVars>>

ExportModeNext ==
  \/ ExportTestConnections
  \/ ExportTestFails
  \/ GetTargetPoolLocal
  \/ GetTargetPoolBuild
  \/ BuildExplicit
  \/ BuildNull
  \/ BuildDetect
  \/ RegionConnects
  \/ RegionFails
  \/ BuildFallback
  \/ GetTargetPoolBuilt
  \/ ExportReturns


----------------------------------------------------------------------------
(***************************************************************************)
(* Sequences: getSequences on the source, and step 4 of migrateSchema on   *)
(* the target.  A sequence is its START WITH and INCREMENT BY options and  *)
(* the two fields of its state, last_value and is_called.                  *)
(***************************************************************************)
MaxStart == 3
MaxIncrement == 2
MaxCalls == 3

NoSequence == [start_value |-> 0, increment_by |-> 0, last_value |-> 0, is_called |-> FALSE]
NoInfo == [start_value |-> 0, increment_by |-> 0, lastValue |-> 0]

\* CREATE SEQUENCE: the state of a new sequence is its start value, not called.
CreateSequence(start, inc) ==
  [start_value |-> start, increment_by |-> inc, last_value |-> start, is_called |-> FALSE]

\* What nextval returns: the stored value of a sequence never called, the
\* stored value plus the increment afterwards.
NextValue(seq) ==
  IF seq.is_called THEN seq.last_value + seq.increment_by ELSE seq.last_value

nextval(seq) == [seq EXCEPT !.last_value = NextValue(seq), !.is_called = TRUE]

setval(seq, value, called) == [seq EXCEPT !.last_value = value, !.is_called = called]

\* getSequences: the options come from pg_sequences, lastValue from
\* SELECT last_value on the sequence itself; is_called is not read.
getSequences(seq) ==
  [start_value |-> seq.start_value, increment_by |-> seq.increment_by,
   lastValue |-> seq.last_value]

\* seq.definition: CREATE SEQUENCE IF NOT EXISTS leaves an existing one alone.
CreateIfNotExists(target, info) ==
  IF target = NoSequence THEN CreateSequence(info.start_value, info.increment_by)
  ELSE target

\* SELECT setval('"schema"."name"', lastValue, true)
RestoreValue(target, info) == setval(target, info.lastValue, TRUE)

SequenceInit ==
  /\ \E start \in 1..MaxStart, inc \in 1..MaxIncrement :
       sqSource = CreateSequence(start, inc)
  /\ sqTarget = NoSequence
  /\ sqCalls = 0
  /\ sqInfo = NoInfo
  /\ sqPc = "source"

SequenceIdle ==
  /\ sqSource = NoSequence
  /\ sqTarget = NoSequence
  /\ sqCalls = 0
  /\ sqInfo = NoInfo
  /\ sqPc = "idle"

\* The source database uses its sequence before the migration.
SourceNextval ==
  /\ sqPc = "source"
  /\ sqCalls < MaxCalls
  /\ sqSource' = nextval(sqSource)
  /\ sqCalls' = sqCalls + 1
  /\ UNCHANGED <<sqTarget, sqInfo, sqPc>>
  /\ UNCHANGED <<sortVars, parseVars, mainVars, dataVars, applyVars, rerunVars,
                 extractVars, regionVars, storageVars, documentVars, tripVars,
                 insertVars, exportVars>>

SchemaGetSequences ==
  /\ sqPc = "source"
  /\ sqInfo' = getSequences(sqSource)
  /\ sqPc' = "create"
  /\ UNCHANGED <<sqSource, sqTarget, sqCalls>>
  /\ UNCHANGED <<sortVars, parseVars, mainVars, dataVars, applyVars, rerunVars,
                 extractVars, regionVars, storageVars, documentVars, tripVars,
                 insertVars, exportVars>>

SchemaCreateSequence ==
  /\ sqPc = "create"
  /\ sqTarget' = CreateIfNotExists(sqTarget, sqInfo)
  /\ sqPc' = "setval"
  /\ UNCHANGED <<sqSource, sqCalls, sqInfo>>
  /\ UNCHANGED <<sortVars, parseVars, mainVars, dataVars, applyVars, rerunVars,
                 extractVars, regionVars, storageVars, documentVars, tripVars,
                 insertVars, exportVars>>

SchemaSetval ==
  /\ sqPc = "setval"
  /\ sqTarget' = RestoreValue(sqTarget, sqInfo)
  /\ sqPc' = "restored"
  /\ UNCHANGED <<sqSource, sqCalls, sqInfo>>
  /\ UNCHANGED <<sortVars, parseVars, mainVars, dataVars, applyVars, rerunVars,
                 extractVars, regionVars, storageVars, documentVars, tripVars,
                 insertVars, exportVars>>

\* Either statement throws: the catch logs and the loop goes on.
SchemaSequenceFails ==
  /\ sqPc \in {"create", "setval"}
  /\ sqPc' = "failed"
  /\ UNCHANGED <<sqSource, sqTarget, sqCalls, sqInfo>>
  /\ UNCHANGED <<sortVars, parseVars, mainVars, dataVars, applyVars, rerunVars,
                 extractVars, regionVars, storageVars, documentVars, tripVars,
                 insertVars, exportVars>>

SequenceNext ==
  \/ SourceNextval
  \/ SchemaGetSequences
  \/ SchemaCreateSequence
  \/ SchemaSetval
  \/ SchemaSequenceFails

----------------------------------------------------------------------------
InitSort ==
  /\ SortInit
  /\ ParseIdle
  /\ MainIdle
  /\ DataIdle
  /\ ApplyIdle
  /\ RerunIdle
  /\ ExtractIdle
  /\ RegionIdle
  /\ StorageIdle
  /\ DocumentIdle
  /\ TripIdle
  /\ InsertIdle
  /\ ExportModeIdle
  /\ SequenceIdle

SpecSort == InitSort /\ [][SortNext]_vars

InitParse ==
  /\ ParseInit
  /\ SortIdle
  /\ MainIdle
  /\ DataIdle
  /\ ApplyIdle
  /\ RerunIdle
  /\ ExtractIdle
  /\ RegionIdle
  /\ StorageIdle
  /\ DocumentIdle
  /\ TripIdle
  /\ InsertIdle
  /\ ExportModeIdle
  /\ SequenceIdle

SpecParse == InitParse /\ [][ParseNext]_vars

InitMain ==
  /\ MainInit
  /\ SortIdle
  /\ ParseIdle
  /\ DataIdle
  /\ ApplyIdle
  /\ RerunIdle
  /\ ExtractIdle
  /\ RegionIdle
  /\ StorageIdle
  /\ DocumentIdle
  /\ TripIdle
  /\ InsertIdle
  /\ ExportModeIdle
  /\ SequenceIdle

SpecMain == InitMain /\ [][MainNext]_vars

InitData ==
  /\ DataInit
  /\ SortIdle
  /\ ParseIdle
  /\ MainIdle
  /\ ApplyIdle
  /\ RerunIdle
  /\ ExtractIdle
  /\ RegionIdle
  /\ StorageIdle
  /\ DocumentIdle
  /\ TripIdle
  /\ InsertIdle
  /\ ExportModeIdle
  /\ SequenceIdle

SpecData == InitData /\ [][DataNext]_vars

InitPaging ==
  /\ PagingInit
  /\ SortIdle
  /\ ParseIdle
  /\ MainIdle
  /\ ApplyIdle
  /\ RerunIdle
  /\ ExtractIdle
  /\ RegionIdle
  /\ StorageIdle
  /\ DocumentIdle
  /\ TripIdle
  /\ InsertIdle
  /\ ExportModeIdle
  /\ SequenceIdle

SpecPaging == InitPaging /\ [][DataNext]_vars

\* main awaits every statement: a step that can be taken is taken.
SpecPagingFair == InitPaging /\ [][DataNext]_vars /\ WF_vars(DataNext)

InitCascade ==
  /\ CascadeInit
  /\ SortIdle
  /\ ParseIdle
  /\ MainIdle
  /\ ApplyIdle
  /\ RerunIdle
  /\ ExtractIdle
  /\ RegionIdle
  /\ StorageIdle
  /\ DocumentIdle
  /\ TripIdle
  /\ InsertIdle
  /\ ExportModeIdle
  /\ SequenceIdle

SpecCascade == InitCascade /\ [][DataNext]_vars

InitApply ==
  /\ ApplyInit
  /\ SortIdle
  /\ ParseIdle
  /\ MainIdle
  /\ DataIdle
  /\ RerunIdle
  /\ ExtractIdle
  /\ RegionIdle
  /\ StorageIdle
  /\ DocumentIdle
  /\ TripIdle
  /\ InsertIdle
  /\ ExportModeIdle
  /\ SequenceIdle

SpecApply == InitApply /\ [][ApplyNext]_vars

InitRerun ==
  /\ RerunInit
  /\ SortIdle
  /\ ParseIdle
  /\ MainIdle
  /\ DataIdle
  /\ ApplyIdle
  /\ ExtractIdle
  /\ RegionIdle
  /\ StorageIdle
  /\ DocumentIdle
  /\ TripIdle
  /\ InsertIdle
  /\ ExportModeIdle
  /\ SequenceIdle

SpecRerun == InitRerun /\ [][RerunNext]_vars

InitExtract ==
  /\ ExtractInit
  /\ SortIdle
  /\ ParseIdle
  /\ MainIdle
  /\ DataIdle
  /\ ApplyIdle
  /\ RerunIdle
  /\ RegionIdle
  /\ StorageIdle
  /\ DocumentIdle
  /\ TripIdle
  /\ InsertIdle
  /\ ExportModeIdle
  /\ SequenceIdle

SpecExtract == InitExtract /\ [][ExtractNext]_vars

InitRegion ==
  /\ RegionInit
  /\ SortIdle
  /\ ParseIdle
  /\ MainIdle
  /\ DataIdle
  /\ ApplyIdle
  /\ RerunIdle
  /\ ExtractIdle
  /\ StorageIdle
  /\ DocumentIdle
  /\ TripIdle
  /\ InsertIdle
  /\ ExportModeIdle
  /\ SequenceIdle

SpecRegion == InitRegion /\ [][RegionNext]_vars

InitStorage ==
  /\ StorageInit
  /\ SortIdle
  /\ ParseIdle
  /\ MainIdle
  /\ DataIdle
  /\ ApplyIdle
  /\ RerunIdle
  /\ ExtractIdle
  /\ RegionIdle
  /\ DocumentIdle
  /\ TripIdle
  /\ InsertIdle
  /\ ExportModeIdle
  /\ SequenceIdle

SpecStorage == InitStorage /\ [][StorageNext]_vars

InitDocument ==
  /\ DocumentInit
  /\ SortIdle
  /\ ParseIdle
  /\ MainIdle
  /\ DataIdle
  /\ ApplyIdle
  /\ RerunIdle
  /\ ExtractIdle
  /\ RegionIdle
  /\ StorageIdle
  /\ TripIdle
  /\ InsertIdle
  /\ ExportModeIdle
  /\ SequenceIdle

SpecDocument == InitDocument /\ [][DocumentNext]_vars

InitTrip ==
  /\ TripInit
  /\ SortIdle
  /\ ParseIdle
  /\ MainIdle
  /\ DataIdle
  /\ ApplyIdle
  /\ RerunIdle
  /\ ExtractIdle
  /\ RegionIdle
  /\ StorageIdle
  /\ DocumentIdle
  /\ InsertIdle
  /\ ExportModeIdle
  /\ SequenceIdle

SpecTrip == InitTrip /\ [][TripNext]_vars

InitInsert ==
  /\ InsertInit
  /\ SortIdle
  /\ ParseIdle
  /\ MainIdle
  /\ DataIdle
  /\ ApplyIdle
  /\ RerunIdle
  /\ ExtractIdle
  /\ RegionIdle
  /\ StorageIdle
  /\ DocumentIdle
  /\ TripIdle
  /\ ExportModeIdle
  /\ SequenceIdle

SpecInsert == InitInsert /\ [][InsertNext]_vars

InitExportMode ==
  /\ ExportModeInit
  /\ SortIdle
  /\ ParseIdle
  /\ MainIdle
  /\ DataIdle
  /\ ApplyIdle
  /\ RerunIdle
  /\ ExtractIdle
  /\ RegionIdle
  /\ StorageIdle
  /\ DocumentIdle
  /\ TripIdle
  /\ InsertIdle
  /\ SequenceIdle

SpecExportMode == InitExportMode /\ [][ExportModeNext]_vars

InitSequence ==
  /\ SequenceInit
  /\ SortIdle
  /\ ParseIdle
  /\ MainIdle
  /\ DataIdle
  /\ ApplyIdle
  /\ RerunIdle
  /\ ExtractIdle
  /\ RegionIdle
  /\ StorageIdle
  /\ DocumentIdle
  /\ TripIdle
  /\ InsertIdle
  /\ ExportModeIdle

SpecSequence == InitSequence /\ [][SequenceNext]_vars

----------------------------------------------------------------------------
(***************************************************************************)
(* Claims on sortByDependency                                              *)
(***************************************************************************)
\* The foreign-key edges between tables of the input list.
InputKeys == {Key(tables[i]) : i \in DOMAIN tables}

InputEdges ==
  {e \in {<<fkRows[i].child, fkRows[i].parent>> : i \in DOMAIN fkRows} :
     e[1] \in InputKeys /\ e[2] \in InputKeys}

RECURSIVE ReachFrom(_, _)
ReachFrom(S, E) ==
  LET T == S \cup {e[2] : e \in {d \in E : d[1] \in S}}
  IN IF T = S THEN S ELSE ReachFrom(T, E)

\* k lies on a cycle (a self-reference included).
OnCycle(k, E) == k \in ReachFrom({e[2] : e \in {d \in E : d[1] = k}}, E)

Acyclic(E) == \A k \in InputKeys : ~OnCycle(k, E)

Occurrences(k) == {j \in DOMAIN sorted : Key(sorted[j]) = k}

\* C1: whatever the foreign-key graph (acyclic, self-referencing, cyclic), the
\* returned list holds every input table exactly once.
C1_EveryTableExactlyOnce ==
  sortPc = "done" =>
    /\ Len(sorted) = Len(tables)
    /\ \A k \in InputKeys : Cardinality(Occurrences(k)) = 1

\* C2: for an acyclic foreign-key graph over the input tables, every edge
\* (child references parent) between input tables has the parent at a smaller
\* index of the returned list than the child.
C2_ParentBeforeChild ==
  (sortPc = "done" /\ Acyclic(InputEdges)) =>
    \A e \in InputEdges :
      /\ Occurrences(e[1]) # {} /\ Occurrences(e[2]) # {}
      /\ \A i \in Occurrences(e[1]) : \A j \in Occurrences(e[2]) : j < i

\* An acyclic chain of two edges whose children come first in the input.
C2_Witness ==
  /\ sortPc = "done"
  /\ Acyclic(InputEdges)
  /\ <<"public.a", "public.b">> \in InputEdges
  /\ <<"public.b", "public.c">> \in InputEdges
  /\ Len(sorted) = 3

----------------------------------------------------------------------------
(***************************************************************************)
(* Claims on parseSQLStatements                                            *)
(***************************************************************************)
\* The open dollar-quote tag at the end of a text read from position i with tag
\* `open`: the first '$' after a '$' closes a token when only tag characters lie
\* between them; tokens are read left to right and do not overlap.
RECURSIVE RefOpenTag(_, _, _)
RefOpenTag(text, i, open) ==
  IF i > Len(text) THEN open
  ELSE IF text[i] = "$" /\ \E k \in (i + 1)..Len(text) :
                              /\ text[k] = "$"
                              /\ \A m \in (i + 1)..(k - 1) : text[m] \in {"a", "b", "_"}
  THEN LET k == CHOOSE k \in (i + 1)..Len(text) :
                  /\ text[k] = "$"
                  /\ \A m \in (i + 1)..(k - 1) : text[m] \in {"a", "b", "_"}
           tok == SubSeq(text, i, k)
       IN RefOpenTag(text, k + 1,
                     IF open = <<>> THEN tok ELSE IF open = tok THEN <<>> ELSE open)
  ELSE RefOpenTag(text, i + 1, open)

Balanced(stmt) == RefOpenTag(stmt, 1, <<>>) = <<>>

----------------------------------------------------------------------------
(***************************************************************************)
(* Claims on main                                                          *)
(***************************************************************************)
\* The documented order of the stages.
CanonicalOrder ==
  <<"schema", "functions", "triggers", "data", "rls", "grants", "storage", "verify">>

Rank(stage) == CHOOSE r \in DOMAIN CanonicalOrder : CanonicalOrder[r] = stage

StageCalls == {i \in DOMAIN calls : calls[i] \in Stages}

\* C4: whatever the order of the flags, the selected stages are invoked in the
\* order schema, functions, triggers, data, row-security, grants, storage,
\* verify: when a stage is invoked, every selected stage that precedes it in
\* this order was invoked before it (and, main awaiting one function at a time,
\* has finished), and no stage is invoked ahead of an earlier one.
C4_StagesInFixedOrder ==
  /\ \A i \in StageCalls : \A j \in StageCalls :
       i < j => Rank(calls[i]) < Rank(calls[j])
  /\ \A j \in StageCalls : \A s \in Stages :
       (Includes(options.steps, s) /\ Rank(s) < Rank(calls[j]))
         => \E i \in StageCalls : i < j /\ calls[i] = s
  /\ \A j \in StageCalls : j < Len(calls) => fn # calls[j]

\* The flags given against the order, all three stages run to the end.
C4_Witness ==
  /\ argv = <<"--data", "--schema">>
  /\ exitCode = "0"
  /\ calls = <<"testConnections", "initPools", "schema", "data">>

\* C5: in the schema, functions, triggers, row-security and grants stages a
\* failed apply statement (not a failed connection) never aborts the stage or
\* the run: no such failure reaches the catch of main.
C5_ApplyFailureNeverAborts ==
  thrown.fn \in {"schema", "functions", "triggers", "rls", "grants"}
    => thrown.kind # "apply"

\* C10: with --dry-run, whatever the other flags, no statement is applied to
\* the target and no stage function (nor applySQL) is invoked.
C10_DryRunMutatesNothing ==
  options.dryRun =>
    /\ ~targetTouched
    /\ \A i \in DOMAIN calls : calls[i] \notin Stages \cup {"applySQL"}
(***************************************************************************)
(* Claims on migrateData and migrateTableData                              *)
(***************************************************************************)
\* C6: an error while truncating, fetching a page or inserting a page marks the
\* table failed and ends that table's paging at once; it never leaves
\* migrateData as an exception (only a checkout or a SET statement does), and
\* a migrateData that returns has a result for every table, the ones after the
\* failed table included.
C6_FaultIsolation ==
  /\ \A i \in DOMAIN results : results[i].erred => results[i].status = "failed"
  /\ ~stats.erred
  /\ dataPc = "thrown" => dataErr \in {"connect", "SET"}
  /\ dataPc = "returned" => Len(results) = Len(dTables)

\* The first table failed on its second page, the second one was transferred in full.
C6_Witness ==
  /\ dataPc = "returned"
  /\ Len(results) = 2
  /\ results[1].status = "failed" /\ results[1].fetches = 2
  /\ results[1].migratedRows = batchSize
  /\ results[2].status = "success" /\ results[2].migratedRows = results[2].totalRows
  /\ results[2].totalRows > 0

\* C7: when migrateData is left, by return or by exception, no session that was
\* switched to session_replication_role = replica is still in that role.
C7_EverySwitchedSessionReset ==
  dataPc \in {"returned", "thrown"} =>
    \A s \in DOMAIN sess : sess[s].role # "replica"

\* C8: no TRUNCATE and no INSERT of the data stage ran on a session whose
\* session_replication_role was not replica.
C8_WritesRunSuspended ==
  ~unsuspended

CeilDiv(a, b) == (a + b - 1) \div b

\* C9: a table of known row count R >= 1, paged with B >= 1 while the source
\* holds exactly R rows and no statement fails, takes exactly ceil(R/B) page
\* fetches and ends with migratedRows = R and status success.
C9_CeilFetchesAllRows ==
  \A i \in DOMAIN results :
    ( /\ results[i].totalRows >= 1
      /\ batchSize >= 1
      /\ srcRows[i] = results[i].totalRows
      /\ ~results[i].erred )
    => /\ results[i].fetches = CeilDiv(results[i].totalRows, batchSize)
       /\ results[i].migratedRows = results[i].totalRows
       /\ results[i].status = "success"

\* Three rows in pages of two: two fetches, the second one short.
C9_Witness ==
  /\ batchSize = 2
  /\ Len(results) = 1
  /\ srcRows[1] = 3
  /\ results[1] = [totalRows |-> 3, migratedRows |-> 3, status |-> "success",
                   fetches |-> 2, erred |-> FALSE,
                   io |-> <<<<"connect", 0>>, <<"truncate", 0>>, <<"fetch", 2>>,
                            <<"insert", 2>>, <<"fetch", 1>>, <<"insert", 1>>>>]

(***************************************************************************)
(* Claims on the release of resources                                      *)
(***************************************************************************)
\* C11: a process that exits with a non-zero status after a fatal error in
\* main has run closePools before it exits.
C11_PoolsClosedBeforeFatalExit ==
  exitCode = "1" => poolsClosed

\* The operations that check a connection out of the target pool for their work.
CheckoutOps == {"schema", "functions", "triggers", "rls", "grants", "data", "applySQL"}

\* C12: a stage, the data transfer or applySQL never gives back a connection it
\* does not hold, never holds two, and holds none once it has returned or
\* thrown, whichever statement or source catalog query failed.
C12_ConnectionsReleasedOnEveryExit ==
  /\ held >= 0
  /\ (fn \in CheckoutOps => held <= 1)
  /\ (fn = None /\ calls # <<>> /\ calls[Len(calls)] \in CheckoutOps) => held = 0

\* migrateSchema was left by a failed source catalog query while it held its
\* connection; nothing is held afterwards.
C12_Witness ==
  /\ fn = None
  /\ thrown = [fn |-> "schema", kind |-> "source", what |-> "getTables"]
  /\ held = 0

(***************************************************************************)
(* Claims on applySQL                                                      *)
(***************************************************************************)
\* The logged statements whose outcome satisfies P.
CountLog(P(_)) == Cardinality({k \in DOMAIN aLog : P(aLog[k])})

CountedSuccess(e) ==
  \/ e.error = <<>>
  \/ MessageIncludes(e.error, "already exists")
  \/ MessageIncludes(e.error, "duplicate")

CountedFailure(e) == ~CountedSuccess(e)

\* C13: the statements are sent one at a time in document order, a failure
\* never ends the loop, an error whose message contains 'already exists' or
\* 'duplicate' counts as a success and any other error as a failure, and
\* success + failed is the number of statements sent.
C13_ApplyCountsAndContinues ==
  /\ \A k \in DOMAIN aLog : k > 1 => aLog[k - 1].i < aLog[k].i
  /\ success = CountLog(CountedSuccess)
  /\ failed = CountLog(CountedFailure)
  /\ success + failed = Len(aLog)
  /\ aPc = "done" =>
       {aLog[k].i : k \in DOMAIN aLog}
         = {i \in DOMAIN aStatements : ~SkipsStatement(aStatements[i])}

\* Three statements: a duplicate, a real failure, and one that succeeds after both.
C13_Witness ==
  /\ aPc = "done"
  /\ Len(aLog) = 3
  /\ aLog[1].error = <<"relation", "already exists">>
  /\ aLog[2].error = <<"syntax error">>
  /\ aLog[3].error = <<>>
  /\ success = 2 /\ failed = 1

\* C14: when migrateSchema runs against a target that already holds every
\* object, no creation attempt that fails only because its object is already
\* there is reported as a failure.
C14_ExistingObjectsNotReportedFailed ==
  rStage = "schema" =>
    \A i \in DOMAIN rLog : rLog[i].existed => rLog[i].report # "failure"

TargetSets(t) == <<t.views, t.functions, t.triggers, t.policies>>

\* C15: after one stage ran again against the fully migrated target, the
\* target holds the views, functions, triggers and policies it held before.
C15_RerunKeepsEndState ==
  (rPc = "done" /\ rStage \in {"schema", "functions", "triggers", "rls", "grants"}) =>
    TargetSets(rTarget) = TargetSets(FullyMigrated(rCatalog))

SectionOrder ==
  <<"schemas", "extensions", "enums", "sequences", "tables", "constraints",
    "indexes", "foreign keys", "views">>

SectionRank(section) == CHOOSE i \in DOMAIN SectionOrder : SectionOrder[i] = section

IsForeignKey(st) == st.op = "ADD CONSTRAINT" /\ st.obj = "f"

IsCreateTable(st) == st.op = "CREATE TABLE IF NOT EXISTS"

InSectionOrder(sts) ==
  /\ \A i, j \in DOMAIN sts :
       i < j => SectionRank(sts[i].section) <= SectionRank(sts[j].section)
  /\ \A i, j \in DOMAIN sts :
       (IsForeignKey(sts[i]) /\ IsCreateTable(sts[j])) => j < i

\* C18: the statements of the document exportSchemaToSQL returns, and the
\* statements migrateSchema has issued, are in the order schemas, extensions,
\* enum types, sequences, tables, non-foreign-key constraints, indexes,
\* foreign-key constraints, views, and every ADD CONSTRAINT of a foreign key
\* comes after every CREATE TABLE.
C18_SectionsInFixedOrder ==
  /\ InSectionOrder(rDoc)
  /\ rStage = "schema" => InSectionOrder([i \in DOMAIN rLog |-> rLog[i].st])

C18_Witness ==
  /\ rStage = "schema" /\ rPc = "done"
  /\ \E i, j \in DOMAIN rLog :
       /\ i < j
       /\ IsCreateTable(rLog[i].st)
       /\ IsForeignKey(rLog[j].st)
       /\ rLog[Len(rLog)].st.section = "views"

\* C16: no descriptor an extraction function returned (a table, index,
\* constraint, trigger, row-security status, policy or grant) refers to a
\* table that is on config.excludeTables.
C16_NoDescriptorOfExcludedTable ==
  \A i \in DOMAIN xResult : xResult[i].table \notin Range(excludeTables)

\* C17: the list of enum labels, grant privileges or policy roles in a
\* returned descriptor is the aggregated list of the catalog, whether the
\* driver delivered it as an array or as the text {a1,...,an}.
C17_SameListFromArrayOrText ==
  \A i \in DOMAIN xResult :
    xResult[i].kind \in {"enum", "grant", "policy"} => xResult[i].list = xList

(***************************************************************************)
(* Claims on the transfer of one table                                     *)
(***************************************************************************)
\* C19: a table whose known row count is 0 is returned as skipped with
\* migratedRows 0, and nothing was done for it: no checkout of the target
\* pool, no TRUNCATE, no fetch, no INSERT.
C19_EmptyTableSkippedWithoutIO ==
  \A i \in DOMAIN results :
    dTables[i].rowCount = 0 =>
      /\ results[i].status = "skipped"
      /\ results[i].migratedRows = 0
      /\ results[i].fetches = 0
      /\ results[i].io = <<>>

\* An empty table skipped and a table of MaxRows rows transferred after it.
C19_Witness ==
  /\ Len(results) = 2
  /\ dTables[1].rowCount = 0 /\ results[1].status = "skipped"
  /\ results[2].status = "success" /\ results[2].migratedRows = MaxRows

\* The pages fetched for a table, in order.
PagesOf(st) == SelectSeq(st.io, LAMBDA e : e[1] = "fetch")

NoFetchAfterShortPage(st) ==
  \A k \in 1..(Len(PagesOf(st)) - 1) : PagesOf(st)[k][2] >= batchSize

\* C20: once a fetched page of a table held fewer rows than the page size, no
\* further page is fetched for that table, whatever the source holds by then.
C20_NoFetchAfterShortPage ==
  /\ NoFetchAfterShortPage(stats)
  /\ \A i \in DOMAIN results : NoFetchAfterShortPage(results[i])

(***************************************************************************)
(* Claims on the lines of parseSQLStatements                               *)
(***************************************************************************)
\* The line the loop of parseSQLStatements is at.
AtLine == parsePc = "scan" /\ lineNo <= Len(Lines)

\* The line is a blank or comment line met with an empty buffer: continue.
SkippedLine ==
  current = <<>> /\ (Trim(Lines[lineNo]) = <<>> \/ StartsWithComment(Trim(Lines[lineNo])))

\* The step pushes one statement and leaves the buffer empty.
Emits == Len(statements') = Len(statements) + 1 /\ current' = <<>>

\* At the end of the line no tag is open and the trimmed line ends with ';'.
ClosedAtSeparator ==
  dollarQuoteTag' = NoTag /\ EndsWithSemicolon(Trim(Lines[lineNo]))

\* C21 as stated: at every line, a statement is emitted and the buffer reset
\* exactly when no tag is open at the end of the line and the trimmed line
\* ends with ';'.
C21_EmitsExactlyAtClosedSeparator ==
  [][AtLine => (Emits <=> ClosedAtSeparator)]_vars

\* C21 amended: the same at every line that is added to the buffer; a blank or
\* comment line met with an empty buffer is skipped, emits nothing and leaves
\* the buffer empty, also when it ends with ';'.
C21_EmitsExactlyAtClosedSeparatorOfBufferedLine ==
  [][AtLine => IF SkippedLine
               THEN statements' = statements /\ current' = <<>>
               ELSE Emits <=> ClosedAtSeparator]_vars

\* A statement with a body whose ';' line did not end it, after a skipped
\* comment line that ends with ';'.
C21_Witness ==
  /\ parsePc = "done"
  /\ Lines = << <<"-", "-", ";">>, <<"1", "$", "$">>,
                <<"$", "$", "1", ";", "$", "$", ";">> >>
  /\ Len(statements) = 1

\* Every line of the script is one statement: it ends with ';', is no comment,
\* and closes every body it opens.
SingleLineStatements ==
  \A i \in DOMAIN Lines :
    /\ EndsWithSemicolon(Trim(Lines[i]))
    /\ ~StartsWithComment(Trim(Lines[i]))
    /\ RefOpenTag(Lines[i], 1, <<>>) = <<>>

C24_RegionsInOrderFirstSuccessWins ==
  /\ Len(bAttempts) <= Len(POOLER_REGIONS)
  /\ \A k \in DOMAIN bAttempts :
       /\ bAttempts[k].region = POOLER_REGIONS[k]
       /\ k < Len(bAttempts) => bAttempts[k].outcome = "failed"
  /\ \A k \in DOMAIN bAttempts :
       bAttempts[k].outcome = "connected" =>
         /\ bPc = "done"
         /\ bResult = PoolerUrl(ProjectRef(bInput), bAttempts[k].region)
  /\ (bResult # <<>> /\ bResult[1] = "pooler") =>
       bAttempts # <<>> /\ bAttempts[Len(bAttempts)].outcome = "connected"
  /\ (bResult # <<>> /\ bResult[1] = "direct") =>
       /\ Len(bAttempts) = Len(POOLER_REGIONS)
       /\ \A k \in DOMAIN bAttempts : bAttempts[k].outcome = "failed"

\* Two candidates failed and the third connected.
C24_Witness ==
  /\ bPc = "done"
  /\ Len(bAttempts) = 3
  /\ bResult = PoolerUrl("refb", POOLER_REGIONS[3])

(***************************************************************************)
(* Claims on migrateStorage                                                *)
(***************************************************************************)
MissingCredentials ==
  \E k \in {"sourceUrl", "sourceKey", "targetUrl", "targetKey"} : gConfig[k] \in {None, ""}

\* C25: when a storage URL or service key of the source or the target is
\* missing, migrateStorage makes no call of the storage API, goes from its
\* start straight to its return, and its statistics are all zero.
C25_MissingCredentialsSkipStorage ==
  (gPc # "idle" /\ MissingCredentials) =>
    /\ gCalls = 0
    /\ gPc \in {"start", "done"}
    /\ gStats = ZeroStats

\* The source is configured, the key of the target is not: returned, nothing done.
C25_Witness ==
  /\ gPc = "done"
  /\ gConfig = [sourceUrl |-> "set", sourceKey |-> "set", targetUrl |-> "set",
                targetKey |-> None]
  /\ gBuckets = <<1, 2>>
  /\ gStats = ZeroStats /\ gCalls = 0

(***************************************************************************)
(* Claims on the order of the tables in the stages                         *)
(***************************************************************************)
\* C26: the schema stage creates the tables in the order the data stage
\* transfers them, the order sortByDependency returns, in which a parent
\* comes before its child (stated for acyclic foreign-key graphs, where
\* that order holds every table once).
C26_SchemaCreatesInResolverOrder ==
  (sortPc = "done" /\ Acyclic(InputEdges)) =>
    /\ getTablesOrder(tables) = [i \in DOMAIN sorted |-> Key(sorted[i])]
    /\ \A e \in InputEdges :
         \A i, j \in DOMAIN tables :
           (getTablesOrder(tables)[i] = e[1] /\ getTablesOrder(tables)[j] = e[2]) => j < i

\* C27: whatever the order of the tables, when migrateData returns and no
\* statement of a table has failed, every table that was transferred holds in
\* the target exactly the rows of the source.
C27_AnyOrderGivesSourceRows ==
  (dataPc = "returned" /\ \A i \in DOMAIN results : ~results[i].erred) =>
    \A i \in DOMAIN results :
      results[i].status = "success" => tRows[dNames[i]] = srcRows[i]

(***************************************************************************)
(* Claims on the selection of stages                                       *)
(***************************************************************************)
\* A live migration: neither a help, an export, an apply nor a dry run.
LiveRun ==
  \A i \in DOMAIN argv : argv[i] \notin {"--help", "--export-sql", "--apply-sql", "--dry-run"}

\* The stages the command line selects: those whose flag is given, or all
\* eight with --all or with no stage flag at all.
SelectedByArgs ==
  IF (\E i \in DOMAIN argv : argv[i] = "--all")
       \/ ~(\E i \in DOMAIN argv : argv[i] \in StageFlags)
  THEN Stages
  ELSE {StepOfFlag(argv[i]) : i \in {j \in DOMAIN argv : argv[j] \in StageFlags}}

TimesCalled(f) == Cardinality({i \in DOMAIN calls : calls[i] = f})

\* C30: in a live migration no stage is invoked twice, also when its flag is
\* given several times, no unselected stage is invoked, and a run that ends
\* normally has invoked each selected stage exactly once; with no stage flag
\* the selected stages are all eight.
C30_SelectedStagesOnceEach ==
  LiveRun =>
    /\ \A s \in Stages : TimesCalled(s) <= 1
    /\ \A s \in Stages : TimesCalled(s) = 1 => s \in SelectedByArgs
    /\ exitCode = "0" => \A s \in SelectedByArgs : TimesCalled(s) = 1
    /\ (mainPc > 0 /\ ~(\E i \in DOMAIN argv : argv[i] \in StageFlags))
         => \A s \in Stages : Includes(options.steps, s)

C30_Witness ==
  /\ argv = <<"--data", "--data">>
  /\ options.steps = <<"data", "data">>
  /\ exitCode = "0"
  /\ calls = <<"testConnections", "initPools", "data">>

(***************************************************************************)
(* Claims on the exported documents                                        *)
(***************************************************************************)
\* C28: parseSQLStatements recovers the statements of an exported document:
\* when it is done it has returned one statement per statement the exporter
\* rendered, in the same order, each with the text the exporter gave it.
C28_ExportedStatementsRecovered ==
  (xpPc \in {"data", "functions"} /\ parsePc = "done") =>
    /\ Len(statements) = Len(rendered)
    /\ \A i \in DOMAIN rendered : Trim(statements[i]) = Trim(rendered[i])

\* A row whose text holds a line ending in ';' was exported and parsed.
C28_Witness ==
  /\ xpPc = "data"
  /\ parsePc = "done"
  /\ xpRows = <<[kind |-> "text", text |-> <<"a", ";", "\n", "b">>]>>
  /\ Len(statements) = 5

(***************************************************************************)
(* Claims on export, then apply                                            *)
(***************************************************************************)
\* The names of the source, less the objects of the excluded table.
SourceNames(cat) ==
  [ tables      |-> {"t1"},
    views       |-> Range(cat.views),
    indexes     |-> Range(cat.indexes),
    constraints |-> Range(cat.constraints) \ {ExcludedKey} ]

TargetNames(t) ==
  [ tables |-> t.tables, views |-> t.views, indexes |-> t.indexes,
    constraints |-> t.constraints ]

\* C29: after the document exportSchemaToSQL built was applied by applySQL to
\* an empty target, the target holds the tables, views, indexes and
\* constraints of the source, less the objects of excluded tables.
C29_ExportApplyRoundTrip ==
  tpPc = "done" => TargetNames(tpTarget) = SourceNames(tpCatalog)

\* The round trip of a source whose views do not read one another.
C29_IndependentViewsRoundTrip ==
  (tpPc = "done" /\ \A v \in Range(tpCatalog.views) : tpCatalog.reads[v] = {})
    => TargetNames(tpTarget) = SourceNames(tpCatalog)

(***************************************************************************)
(* Claims on the INSERT of a page                                          *)
(***************************************************************************)
RECURSIVE Flatten(_)
Flatten(ss) == IF ss = <<>> THEN <<>> ELSE Head(ss) \o Flatten(Tail(ss))

\* C31: the INSERT built for a page of r rows of a table with c columns lists
\* the columns in declared order, numbers its placeholders 1..r*c without gap
\* or repetition, and binds placeholder i*c + j + 1 to the value of the j-th
\* declared column of the i-th fetched row.
C31_PlaceholdersNumberedAndBound ==
  iPc = "built" =>
    LET r == Len(iRows)
        c == Len(iColumns)
    IN /\ iQuery.columns = iColumns
       /\ Flatten(iQuery.placeholders) = [n \in 1..(r * c) |-> n]
       /\ Len(iQuery.values) = r * c
       /\ \A i \in 0..(r - 1) : \A j \in 0..(c - 1) :
            /\ iQuery.placeholders[i + 1][j + 1] = i * c + j + 1
            /\ iQuery.values[i * c + j + 1] = iRows[i + 1][iColumns[j + 1]]

C31_Witness ==
  /\ iPc = "built"
  /\ iColumns = <<"b", "a">>
  /\ Len(iRows) = 2
  /\ iRows[1]["a"] # iRows[1]["b"]
  /\ iQuery.placeholders = <<<<1, 2>>, <<3, 4>>>>

(***************************************************************************)
(* Claims on the order of the data stage                                   *)
(***************************************************************************)
\* No table references, directly or through other tables, itself.
AcyclicRefs(refs) == \A e \in refs : e[2] \notin CascadeSet({e[1]}, refs)

\* The rows of the foreign-key query for the references.
RefRows(refs) ==
  SelectSeq(<<[child |-> "public.a", parent |-> "public.b"],
              [child |-> "public.b", parent |-> "public.a"],
              [child |-> "public.a", parent |-> "public.a"],
              [child |-> "public.b", parent |-> "public.b"]>>, LAMBDA row : <<row.child, row.parent>> \in refs)

\* The tables are transferred in the order sortByDependency returns for them.
InResolverOrder ==
  LET tbls == SelectSeq(TableUniverse, LAMBDA t : Key(t) \in Range(dNames))
      order == sortByDependency(tbls, RefRows(dRefs))
  IN dNames = [i \in DOMAIN order |-> Key(order[i])]

\* C32: with an acyclic foreign-key graph and the tables in the resolver's
\* order, every table transferred earlier in the stage without an error holds
\* its source rows at every later moment of the stage: no TRUNCATE ... CASCADE
\* of a later table has emptied it.
C32_CascadeSparesTransferredTables ==
  (AcyclicRefs(dRefs) /\ InResolverOrder) =>
    \A i \in DOMAIN results :
      (results[i].status = "success" /\ ~results[i].erred)
        => tRows[dNames[i]] = srcRows[i]

\* The child held a stale row, the TRUNCATE of its parent emptied it, and both
\* tables hold their source rows when the stage returns.
C32_Witness ==
  /\ dataPc = "returned"
  /\ dNames = <<"public.a", "public.b">>
  /\ dRefs = {<<"public.b", "public.a">>}
  /\ Len(results) = 2
  /\ \A i \in DOMAIN results : results[i].status = "success" /\ ~results[i].erred
  /\ tRows = [n \in CascadeNames |-> MaxRows]

(***************************************************************************)
(* Claims on the outcome of migrateTableData                               *)
(***************************************************************************)
\* C33: whenever migrateTableData returns status success, migratedRows equals
\* totalRows, whatever the batch size and whatever the source holds when the
\* pages are fetched.
C33_SuccessMeansAllRows ==
  \A i \in DOMAIN results :
    results[i].status = "success" => results[i].migratedRows = results[i].totalRows

(***************************************************************************)
(* Claims on the termination of the paging loop                            *)
(***************************************************************************)
\* An iteration of the while loop completes: the page was inserted.
IterationCompletes == dataPc = "insert" /\ dataPc' = "paging"

\* C34: for every known row count and every batch size (positive, zero,
\* negative, NaN) the paging loop of a table ends; every completed iteration
\* strictly increases the offset, and an iteration that does not complete
\* leaves the loop (empty page or error).
C34_PagingTerminates ==
  /\ [][IterationCompletes => (offset' # NaN /\ offset' > offset)]_vars
  /\ (dataPc \in {"paging", "insert"}) ~> (dataPc \notin {"paging", "insert"})

\* A batch size that is not a number: the first fetch fails and the loop ends.
C34_Witness ==
  /\ batchSize = NaN
  /\ dataPc = "returned"
  /\ Len(results) = 1
  /\ results[1].totalRows = MaxRows
  /\ results[1].fetches = 1
  /\ results[1].status = "failed"

(***************************************************************************)
(* Claims on the views of migrateSchema                                    *)
(***************************************************************************)
\* C35: when migrateSchema ends, every view whose CREATE VIEW succeeded in
\* this run exists in the target: no DROP VIEW IF EXISTS ... CASCADE issued
\* later for another view has removed it.
C35_CreatedViewsSurvive ==
  (rPc = "done" /\ rStage = "schema") =>
    \A i \in DOMAIN rLog :
      (rLog[i].st.op = "CREATE VIEW" /\ rLog[i].report = "ok")
        => rLog[i].st.obj \in rTarget.views

\* migrateSchema is about to issue the statement `what`.
Issuing(f, what) ==
  /\ fn = f
  /\ ip <= Len(PlanOf(f, options))
  /\ PlanOf(f, options)[ip].what = what

\* The function f was called and has returned.
Finished(f) == fn # f /\ \E i \in DOMAIN calls : calls[i] = f

\* C36: in a full run, when a CREATE VIEW is issued every CREATE TABLE of the
\* schema stage has been issued and the functions stage, which issues every
\* CREATE FUNCTION, has finished.
C36_ViewsAfterTablesAndFunctions ==
  (LiveRun /\ SelectedByArgs = Stages /\ Issuing("schema", "CREATE VIEW")) =>
    /\ \A k \in DOMAIN migrateSchema : migrateSchema[k].what = "CREATE TABLE" => k < ip
    /\ Finished("functions")

(***************************************************************************)
(* Claims on the probe pools of buildSupabaseDbUrl                         *)
(***************************************************************************)
\* C39: every probe pool created for a candidate has been ended when the next
\* candidate is tried and when the function returns, whether its connection
\* attempt succeeded or failed.
C39_ProbePoolsClosed ==
  /\ \A k \in DOMAIN bAttempts : k < Len(bAttempts) => bAttempts[k].ended
  /\ bPc = "done" => \A k \in DOMAIN bAttempts : bAttempts[k].ended

(***************************************************************************)
(* Claims on export mode                                                   *)
(***************************************************************************)
\* C37: in export mode no connection to the target database is attempted,
\* neither by testConnections nor by the initialisation of the pools.
C37_ExportNeverConnectsToTarget ==
  /\ eTargetConnects = 0
  /\ bAttempts = <<>>

(***************************************************************************)
(* Claims on migrateFunctions                                              *)
(***************************************************************************)
\* C38: in migrateFunctions, after the DROP FUNCTION of a function, whether it
\* succeeded or failed, the next statement attempted is the creation of the
\* same function; after a creation, whether it succeeded or failed, the next
\* statement is the DROP of the next function, or the release after the last.
C38_CreateAttemptedWhateverFails ==
  [][ (fn = "functions" /\ ip <= Len(migrateFunctions) /\ ip' # ip) =>
        /\ fn' = "functions" \/ migrateFunctions[ip].kind # "apply"
        /\ migrateFunctions[ip].what = "DROP FUNCTION" =>
             /\ ip' = ip + 1
             /\ migrateFunctions[ip'].what = "CREATE FUNCTION"
             /\ migrateFunctions[ip'].try[2] = migrateFunctions[ip].try[2]
        /\ migrateFunctions[ip].what = "CREATE FUNCTION" =>
             /\ ip' = ip + 1
             /\ migrateFunctions[ip'].what \in {"DROP FUNCTION", "targetClient.release"} ]_vars

\* The DROP of the first function failed and its creation is the next statement.
C38_Witness ==
  /\ argv = <<"--functions">>
  /\ fn = "functions"
  /\ caught
  /\ ip = 4
  /\ migrateFunctions[ip].what = "CREATE FUNCTION"

(***************************************************************************)
(* Claims on sequences                                                     *)
(***************************************************************************)
\* C40: once the schema stage has created a sequence and restored its value,
\* the next value of the target sequence is the next value of the source
\* sequence, whether the source sequence was called before or never.
C40_RestoredSequenceContinues ==
  sqPc = "restored" => NextValue(sqTarget) = NextValue(sqSource)

====
